---- MODULE Spec2Model ----
(***************************************************************************)
(* Interaction state of the floating overlay components of the repository: *)
(* HoverCard (src/components/ui/hover-card.tsx), Tooltip                   *)
(* (src/components/ui/tooltip.tsx) and DropdownMenu                        *)
(* (src/components/ui/dropdown-menu.tsx), and of the Command list and the  *)
(* ScrollBar (src/components/ui/progress.tsx).                             *)
(*                                                                         *)
(* One behaviour follows ONE mounted component instance (comp); instances  *)
(* own independent state, so the variables of the other components keep    *)
(* their construction values.  An action is one event handler or timer     *)
(* callback together with the re-render and the effects it causes.         *)
(*                                                                         *)
(* A timeout ref holds "null", "pending" (the id of a timer that is still  *)
(* scheduled) or "expired" (the id of a timer that has run or has been     *)
(* cleared without the ref being reset).  Timers are untimed: a pending    *)
(* timer may run at any later step, whatever its delay.                    *)
(***************************************************************************)
EXTENDS Integers, Sequences, FiniteSets, TLC

\* Bound on the onOpenChange calls recorded per instance.
MaxCalls == 3
\* Bound on the scheduled timers that no ref points to any more.
MaxLeaked == 2
\* Bound on the CommandItems an application renders in a Command.
MaxItems == 2
\* Bound on the scroll-offset writes of a ScrollBar that a behaviour follows.
MaxWrites == 2
\* Bound on the changes of open of a Collapsible that a behaviour follows.
MaxToggles == 3

VARIABLES
    comp,                  \* the component instance this behaviour follows
    \* ---- HoverCard ----
    hc_isControlled,       \* controlledOpen !== undefined: the open prop is supplied
    hc_controlledOpen,     \* the open prop when supplied (FALSE stands for undefined)
    hc_uncontrolledOpen,   \* useState(defaultOpen)
    hc_onOpenChange,       \* whether the onOpenChange prop is supplied
    hc_openDelay,
    hc_closeDelay,
    hc_openTimeoutRef,
    hc_closeTimeoutRef,
    hc_mounted,
    hc_calls,              \* the arguments onOpenChange was called with, in order
    hc_ev,                 \* the handler or callback that ran last
    hc_lastReq,            \* the latest setOpen request: "none", "open", "close"
    hc_cleared,            \* the timers ("open", "close") the last step cancelled while pending
    \* ---- Tooltip / TooltipTrigger ----
    tt_isControlled,
    tt_controlledOpen,
    tt_uncontrolledOpen,
    tt_onOpenChange,
    tt_delayDuration,
    tt_timeoutRef,
    tt_leaked,             \* scheduled timers timeoutRef no longer points to
    tt_mounted,            \* the TooltipTrigger is mounted
    tt_calls,
    tt_ev,
    tt_lastReq,
    tt_setOpenArgs,        \* the values Tooltip.setOpen was called with in the last step
    \* ---- DropdownMenu ----
    dd_isControlled,
    dd_controlledOpen,
    dd_uncontrolledOpen,
    dd_onOpenChange,
    dd_hasTrigger,         \* a DropdownMenuTrigger is rendered in the menu
    dd_mounted,
    dd_focus,              \* where the keyboard focus is: "body", "trigger", "content"
    dd_listeners,          \* registered (mousedown, keydown) document listener pairs
    dd_cleanup,            \* the dismissal effect holds a cleanup to run
    dd_calls,
    dd_setOpenArgs,        \* the values DropdownMenu.setOpen was called with in the last step
    dd_ev,                 \* the last event: <<handler, argument>>
    \* ---- Command ----
    cmd_filter,            \* the filter prop: "none" or the name of a custom predicate
    cmd_shouldFilter,      \* the shouldFilter prop
    cmd_search,            \* useState("")
    cmd_selectedIndex,     \* useState(0)
    cmd_items,             \* items.current
    cmd_itemIndexCounter,  \* itemIndexCounter.current
    cmd_indexRef,          \* indexRef.current of each CommandItem, -1 when not mounted
    cmd_isEmpty,           \* CommandEmpty: useState(false)
    cmd_emptyTimeout,      \* the timer of CommandEmpty: "pending" or "none"
    cmd_onSelect,          \* the item whose onSelect ran in the last step, 0 when none
    cmd_ev,                \* the last event: <<handler, argument>>
    \* ---- ScrollBar ----
    sb_viewportSize,       \* the viewportSize prop
    sb_contentSize,        \* the contentSize prop
    sb_hasViewport,        \* viewportRef?.current is an element
    sb_trackSize,          \* the height (width) of the scrollbar element
    sb_trackOrigin,        \* rect.top (rect.left) of the scrollbar element
    sb_scrollPosition,     \* the scrollPosition prop: the scroll offset of the viewport
    sb_isDragging,         \* useState(false)
    sb_startPosRef,
    sb_startScrollRef,
    sb_listeners,          \* registered (mousemove, mouseup) document listener pairs
    sb_mounted,
    sb_written,            \* the value the last step assigned to scrollTop (scrollLeft), if any
    sb_writes,             \* the number of scroll-offset writes so far
    sb_ev,                 \* the last event: <<handler, pointer coordinate>>
    \* ---- TooltipContent, DropdownMenuContent, HoverCardContent ----
    ct_kind,               \* the component: "Tooltip", "DropdownMenu" or "HoverCard"
    ct_open,               \* open of the surrounding context
    ct_mounted,            \* useState(false), set by the mount effect
    ct_hasTrigger,         \* triggerRef.current is an element
    ct_side,               \* the side prop
    ct_align,              \* the align prop
    ct_sideOffset,         \* the sideOffset prop
    ct_trigger,            \* what triggerRef.current.getBoundingClientRect() returns now
    ct_content,            \* what contentRef.current.getBoundingClientRect() returns now
    ct_position,           \* useState({ top: 0, left: 0 })
    ct_positioned,         \* the effect has called setPosition since the content element exists
    ct_ev,                 \* the last event
    \* ---- Collapsible, CollapsibleTrigger, CollapsibleContent ----
    cl_isControlled,       \* controlledOpen !== undefined
    cl_controlledOpen,     \* the open prop
    cl_uncontrolledOpen,   \* useState(defaultOpen)
    cl_defaultOpen,        \* open at the first render
    cl_disabled,           \* the disabled prop
    cl_forceMount,         \* the forceMount prop of CollapsibleContent
    cl_scrollHeight,       \* content.scrollHeight: the natural height of the content
    cl_contentRef,         \* contentRef.current is an element: the last render returned the div
    cl_height,             \* useState<number | undefined>(undefined)
    cl_isAnimating,        \* useState(false)
    cl_timer,              \* the pending 200 ms timer: "none", "opening" or "closing"
    cl_frames,             \* pending outer requestAnimationFrame callbacks
    cl_innerFrames,        \* pending inner requestAnimationFrame callbacks
    cl_mounted,
    cl_toggles,            \* the number of changes of open so far
    cl_ev,                 \* the last event
    \* ---- two Command instances mounted at the same time ----
    sc_itemIndexCounter,   \* the module-level itemIndexCounter.current
    sc_indexRef,           \* indexRef.current of each CommandItem of each Command, -1: not mounted
    sc_items,              \* of each Command: the indices of items.current that hold an element
    sc_selectedIndex,      \* of each Command: useState(0)
    sc_ev,                 \* the last event: <<handler, Command instance>>
    \* ---- a component rendered inside or outside its owning surface ----
    rn_component,          \* the component that is rendered
    rn_inside,             \* the providers of its owning surface are among its ancestors
    rn_outcome             \* "none" before the render, then "throws" or "renders"

hcVars == <<hc_isControlled, hc_controlledOpen, hc_uncontrolledOpen, hc_onOpenChange, hc_openDelay,
            hc_closeDelay, hc_openTimeoutRef, hc_closeTimeoutRef, hc_mounted,
            hc_calls, hc_ev, hc_lastReq, hc_cleared>>
ttVars == <<tt_isControlled, tt_controlledOpen, tt_uncontrolledOpen, tt_onOpenChange, tt_delayDuration,
            tt_timeoutRef, tt_leaked, tt_mounted, tt_calls, tt_ev, tt_lastReq,
            tt_setOpenArgs>>
ddVars == <<dd_isControlled, dd_controlledOpen, dd_uncontrolledOpen, dd_onOpenChange,
            dd_hasTrigger, dd_mounted, dd_focus, dd_listeners, dd_cleanup, dd_calls,
            dd_setOpenArgs, dd_ev>>
cmdVars == <<cmd_filter, cmd_shouldFilter, cmd_search, cmd_selectedIndex, cmd_items,
             cmd_itemIndexCounter, cmd_indexRef, cmd_isEmpty, cmd_emptyTimeout,
             cmd_onSelect, cmd_ev>>
sbVars == <<sb_viewportSize, sb_contentSize, sb_hasViewport, sb_trackSize, sb_trackOrigin,
            sb_scrollPosition, sb_isDragging, sb_startPosRef, sb_startScrollRef, sb_listeners,
            sb_mounted, sb_written, sb_writes, sb_ev>>
ctVars == <<ct_kind, ct_open, ct_mounted, ct_hasTrigger, ct_side, ct_align, ct_sideOffset,
            ct_trigger, ct_content, ct_position, ct_positioned, ct_ev>>
clVars == <<cl_isControlled, cl_controlledOpen, cl_uncontrolledOpen, cl_defaultOpen, cl_disabled,
            cl_forceMount, cl_scrollHeight, cl_contentRef, cl_height, cl_isAnimating, cl_timer,
            cl_frames, cl_innerFrames, cl_mounted, cl_toggles, cl_ev>>
scVars == <<sc_itemIndexCounter, sc_indexRef, sc_items, sc_selectedIndex, sc_ev>>
rnVars == <<rn_component, rn_inside, rn_outcome>>
vars == <<comp, hcVars, ttVars, ddVars, cmdVars, sbVars, ctVars, clVars, scVars, rnVars>>

\* onOpenChange?.(value): the call is recorded when the prop is supplied.
Notify(calls, supplied, value) == IF supplied THEN Append(calls, value) ELSE calls

-----------------------------------------------------------------------------
(* HoverCard *)

HcOpen == IF hc_isControlled THEN hc_controlledOpen ELSE hc_uncontrolledOpen

\* clearTimeout(ref.current); ref.current = null
ClearRef(ref) == "null"

\* The timers among the given refs that are still scheduled.
Pending(openRef, closeRef) ==
    (IF openRef = "pending" THEN {"open"} ELSE {})
        \cup (IF closeRef = "pending" THEN {"close"} ELSE {})

\* setOpen with the faults "a close request leaves the open timer scheduled" and
\* "an open request leaves the close timer scheduled".
HoverCardSetOpenKeepsOpenTimer(value) ==
    LET closeCleared == IF hc_closeTimeoutRef # "null" THEN ClearRef(hc_closeTimeoutRef)
                        ELSE hc_closeTimeoutRef
    IN /\ hc_openTimeoutRef' = IF value THEN "pending" ELSE hc_openTimeoutRef
       /\ hc_closeTimeoutRef' = IF value THEN closeCleared ELSE "pending"
       /\ hc_lastReq' = IF value THEN "open" ELSE "close"
       /\ hc_cleared' = Pending("null", hc_closeTimeoutRef)
       /\ UNCHANGED <<hc_uncontrolledOpen, hc_calls>>

HoverCardSetOpenKeepsCloseTimer(value) ==
    LET openCleared == IF hc_openTimeoutRef # "null" THEN ClearRef(hc_openTimeoutRef)
                       ELSE hc_openTimeoutRef
    IN /\ hc_openTimeoutRef' = IF value THEN "pending" ELSE openCleared
       /\ hc_closeTimeoutRef' = IF value THEN hc_closeTimeoutRef ELSE "pending"
       /\ hc_lastReq' = IF value THEN "open" ELSE "close"
       /\ hc_cleared' = Pending(hc_openTimeoutRef, "null")
       /\ UNCHANGED <<hc_uncontrolledOpen, hc_calls>>

\* HoverCard.setOpen(value): clears both timers, then schedules one.
HoverCardSetOpen(value) ==
    LET openCleared == IF hc_openTimeoutRef # "null" THEN ClearRef(hc_openTimeoutRef)
                       ELSE hc_openTimeoutRef
        closeCleared == IF hc_closeTimeoutRef # "null" THEN ClearRef(hc_closeTimeoutRef)
                        ELSE hc_closeTimeoutRef
    IN /\ hc_openTimeoutRef' = IF value THEN "pending" ELSE openCleared
       /\ hc_closeTimeoutRef' = IF value THEN closeCleared ELSE "pending"
       /\ hc_lastReq' = IF value THEN "open" ELSE "close"
       /\ hc_cleared' = Pending(hc_openTimeoutRef, hc_closeTimeoutRef)
       /\ UNCHANGED <<hc_uncontrolledOpen, hc_calls>>

\* The callback given to setTimeout in setOpen.
HoverCardTimeoutCallback(value) ==
    /\ hc_uncontrolledOpen' = IF ~hc_isControlled THEN value ELSE hc_uncontrolledOpen
    /\ hc_calls' = Notify(hc_calls, hc_onOpenChange, value)

\* cancelClose with the fault "clears the open timer as well".
HoverCardCancelCloseClearsBoth ==
    /\ hc_closeTimeoutRef' = IF hc_closeTimeoutRef # "null" THEN ClearRef(hc_closeTimeoutRef)
                             ELSE hc_closeTimeoutRef
    /\ hc_openTimeoutRef' = IF hc_openTimeoutRef # "null" THEN ClearRef(hc_openTimeoutRef)
                            ELSE hc_openTimeoutRef
    /\ hc_cleared' = Pending(hc_openTimeoutRef, hc_closeTimeoutRef)
    /\ UNCHANGED <<hc_uncontrolledOpen, hc_calls, hc_lastReq>>

HoverCardCancelClose ==
    /\ hc_closeTimeoutRef' = IF hc_closeTimeoutRef # "null" THEN ClearRef(hc_closeTimeoutRef)
                             ELSE hc_closeTimeoutRef
    /\ hc_cleared' = Pending("null", hc_closeTimeoutRef)
    /\ UNCHANGED <<hc_openTimeoutRef, hc_uncontrolledOpen, hc_calls, hc_lastReq>>

\* The unmount cleanup: clearTimeout without resetting the ref.
ClearOnUnmount(ref) == IF ref = "pending" THEN "expired" ELSE ref

HcProps == <<hc_isControlled, hc_controlledOpen, hc_onOpenChange, hc_openDelay, hc_closeDelay>>

HcTriggerMouseEnter ==
    /\ hc_mounted
    /\ HoverCardSetOpen(TRUE)
    /\ hc_ev' = "triggerMouseEnter"
    /\ UNCHANGED <<HcProps, hc_mounted>>

HcTriggerMouseLeave ==
    /\ hc_mounted
    /\ HoverCardSetOpen(FALSE)
    /\ hc_ev' = "triggerMouseLeave"
    /\ UNCHANGED <<HcProps, hc_mounted>>

\* HoverCardContent renders its element, and so receives events, only while open.
HcContentMouseEnter ==
    /\ hc_mounted /\ HcOpen
    /\ HoverCardCancelClose
    /\ hc_ev' = "contentMouseEnter"
    /\ UNCHANGED <<HcProps, hc_mounted>>

HcContentMouseLeave ==
    /\ hc_mounted /\ HcOpen
    /\ HoverCardSetOpen(FALSE)
    /\ hc_ev' = "contentMouseLeave"
    /\ UNCHANGED <<HcProps, hc_mounted>>

HcOpenTimeout ==
    /\ hc_openTimeoutRef = "pending"
    /\ Len(hc_calls) < MaxCalls
    /\ HoverCardTimeoutCallback(TRUE)
    /\ hc_openTimeoutRef' = "expired"
    /\ hc_ev' = "openTimeout"
    /\ hc_cleared' = {}
    /\ UNCHANGED <<HcProps, hc_mounted, hc_closeTimeoutRef, hc_lastReq>>

HcCloseTimeout ==
    /\ hc_closeTimeoutRef = "pending"
    /\ Len(hc_calls) < MaxCalls
    /\ HoverCardTimeoutCallback(FALSE)
    /\ hc_closeTimeoutRef' = "expired"
    /\ hc_ev' = "closeTimeout"
    /\ hc_cleared' = {}
    /\ UNCHANGED <<HcProps, hc_mounted, hc_openTimeoutRef, hc_lastReq>>

HcUnmount ==
    /\ hc_mounted
    /\ hc_mounted' = FALSE
    /\ hc_openTimeoutRef' = ClearOnUnmount(hc_openTimeoutRef)
    /\ hc_closeTimeoutRef' = ClearOnUnmount(hc_closeTimeoutRef)
    /\ hc_ev' = "unmount"
    /\ hc_cleared' = Pending(hc_openTimeoutRef, hc_closeTimeoutRef)
    /\ UNCHANGED <<HcProps, hc_uncontrolledOpen, hc_calls, hc_lastReq>>

\* Controlled mode: the owner re-renders the card with another open prop.
HcParentSetsOpen ==
    /\ hc_mounted /\ hc_isControlled
    /\ hc_controlledOpen' = ~hc_controlledOpen
    /\ hc_ev' = "parentSetsOpen"
    /\ hc_cleared' = {}
    /\ UNCHANGED <<hc_isControlled, hc_onOpenChange, hc_openDelay, hc_closeDelay, hc_uncontrolledOpen,
                   hc_openTimeoutRef, hc_closeTimeoutRef, hc_mounted, hc_calls, hc_lastReq>>

\* A mousedown outside the card or an Escape keydown reaches the document while
\* the card is mounted, and a dismissal listener closes the card.
HcDocumentEventDismisses ==
    /\ hc_mounted
    /\ hc_ev' \in {"documentMouseDown", "documentKeyDown"}
    /\ IF HcOpen THEN HoverCardSetOpen(FALSE)
                 ELSE hc_cleared' = {} /\ UNCHANGED <<hc_openTimeoutRef, hc_closeTimeoutRef, hc_lastReq>>
    /\ UNCHANGED <<HcProps, hc_uncontrolledOpen, hc_mounted, hc_calls>>

\* A mousedown outside the card or an Escape keydown reaches the document while
\* the card is mounted.  HoverCard, HoverCardTrigger and HoverCardContent register
\* no document listener (the only effects are the unmount cleanup of the timers
\* and the position effect), so no handler of the card runs.
HcDocumentEvent ==
    /\ hc_mounted
    /\ hc_ev' \in {"documentMouseDown", "documentKeyDown"}
    /\ hc_cleared' = {}
    /\ UNCHANGED <<HcProps, hc_uncontrolledOpen, hc_openTimeoutRef, hc_closeTimeoutRef,
                   hc_mounted, hc_calls, hc_lastReq>>

HcInit ==
    /\ hc_isControlled \in BOOLEAN
    /\ hc_controlledOpen \in (IF hc_isControlled THEN BOOLEAN ELSE {FALSE})
    /\ hc_uncontrolledOpen \in BOOLEAN
    /\ hc_onOpenChange \in BOOLEAN
    /\ hc_openDelay \in {0, 700}
    /\ hc_closeDelay \in {0, 300}
    /\ hc_openTimeoutRef = "null"
    /\ hc_closeTimeoutRef = "null"
    /\ hc_mounted = TRUE
    /\ hc_calls = <<>>
    /\ hc_ev = "init"
    /\ hc_lastReq = "none"
    /\ hc_cleared = {}

\* The construction values of an instance this behaviour does not follow.
HcIdle ==
    /\ hc_isControlled = FALSE
    /\ hc_controlledOpen = FALSE
    /\ hc_uncontrolledOpen = FALSE
    /\ hc_onOpenChange = FALSE
    /\ hc_openDelay = 700
    /\ hc_closeDelay = 300
    /\ hc_openTimeoutRef = "null"
    /\ hc_closeTimeoutRef = "null"
    /\ hc_mounted = TRUE
    /\ hc_calls = <<>>
    /\ hc_ev = "init"
    /\ hc_lastReq = "none"
    /\ hc_cleared = {}

-----------------------------------------------------------------------------
(* Tooltip and TooltipTrigger *)

TtOpen == IF tt_isControlled THEN tt_controlledOpen ELSE tt_uncontrolledOpen

\* Tooltip.setOpen(value)
TooltipSetOpen(value) ==
    /\ tt_uncontrolledOpen' = IF ~tt_isControlled THEN value ELSE tt_uncontrolledOpen
    /\ tt_calls' = Notify(tt_calls, tt_onOpenChange, value)
    /\ tt_setOpenArgs' = <<value>>

TtProps == <<tt_isControlled, tt_controlledOpen, tt_onOpenChange, tt_delayDuration>>

\* handleMouseEnter: the ref is overwritten, a timer it pointed to stays scheduled.
TooltipHandleMouseEnter ==
    IF tt_delayDuration > 0
    THEN /\ tt_timeoutRef' = "pending"
         /\ tt_leaked' = IF tt_timeoutRef = "pending" THEN tt_leaked + 1 ELSE tt_leaked
         /\ tt_setOpenArgs' = <<>>
         /\ UNCHANGED <<tt_uncontrolledOpen, tt_calls>>
    ELSE /\ TooltipSetOpen(TRUE)
         /\ UNCHANGED <<tt_timeoutRef, tt_leaked>>

TooltipHandleMouseLeave ==
    /\ tt_timeoutRef' = IF tt_timeoutRef # "null" THEN ClearRef(tt_timeoutRef)
                        ELSE tt_timeoutRef
    /\ TooltipSetOpen(FALSE)
    /\ UNCHANGED tt_leaked

TooltipHandleFocus ==
    /\ TooltipSetOpen(TRUE)
    /\ UNCHANGED <<tt_timeoutRef, tt_leaked>>

TooltipHandleBlur ==
    /\ TooltipSetOpen(FALSE)
    /\ UNCHANGED <<tt_timeoutRef, tt_leaked>>

TtMouseEnter ==
    /\ tt_mounted
    /\ Len(tt_calls) < MaxCalls
    /\ ~(tt_timeoutRef = "pending" /\ tt_leaked = MaxLeaked)
    /\ TooltipHandleMouseEnter
    /\ tt_ev' = "mouseEnter"
    /\ tt_lastReq' = "open"
    /\ UNCHANGED <<TtProps, tt_mounted>>

TtMouseLeave ==
    /\ tt_mounted
    /\ Len(tt_calls) < MaxCalls
    /\ TooltipHandleMouseLeave
    /\ tt_ev' = "mouseLeave"
    /\ tt_lastReq' = "close"
    /\ UNCHANGED <<TtProps, tt_mounted>>

TtFocus ==
    /\ tt_mounted
    /\ Len(tt_calls) < MaxCalls
    /\ TooltipHandleFocus
    /\ tt_ev' = "focus"
    /\ tt_lastReq' = "open"
    /\ UNCHANGED <<TtProps, tt_mounted>>

TtBlur ==
    /\ tt_mounted
    /\ Len(tt_calls) < MaxCalls
    /\ TooltipHandleBlur
    /\ tt_ev' = "blur"
    /\ tt_lastReq' = "close"
    /\ UNCHANGED <<TtProps, tt_mounted>>

\* The timer timeoutRef points to runs: () => setOpen(true).
TtTimeout ==
    /\ tt_timeoutRef = "pending"
    /\ Len(tt_calls) < MaxCalls
    /\ TooltipSetOpen(TRUE)
    /\ tt_timeoutRef' = "expired"
    /\ tt_ev' = "timeout"
    /\ UNCHANGED <<TtProps, tt_mounted, tt_leaked, tt_lastReq>>

\* A timer that timeoutRef no longer points to runs.
TtLeakedTimeout ==
    /\ tt_leaked > 0
    /\ Len(tt_calls) < MaxCalls
    /\ TooltipSetOpen(TRUE)
    /\ tt_leaked' = tt_leaked - 1
    /\ tt_ev' = "timeout"
    /\ UNCHANGED <<TtProps, tt_mounted, tt_timeoutRef, tt_lastReq>>

\* The TooltipTrigger unmounts (its Tooltip may stay): the effect cleanup runs.
TtUnmount ==
    /\ tt_mounted
    /\ tt_mounted' = FALSE
    /\ tt_timeoutRef' = ClearOnUnmount(tt_timeoutRef)
    /\ tt_ev' = "unmount"
    /\ tt_setOpenArgs' = <<>>
    /\ UNCHANGED <<TtProps, tt_uncontrolledOpen, tt_leaked, tt_calls, tt_lastReq>>

TtParentSetsOpen ==
    /\ tt_mounted /\ tt_isControlled
    /\ tt_controlledOpen' = ~tt_controlledOpen
    /\ tt_ev' = "parentSetsOpen"
    /\ tt_setOpenArgs' = <<>>
    /\ UNCHANGED <<tt_isControlled, tt_onOpenChange, tt_delayDuration, tt_uncontrolledOpen, tt_timeoutRef,
                   tt_leaked, tt_mounted, tt_calls, tt_lastReq>>

\* A mousedown outside the tooltip or an Escape keydown reaches the document while
\* the tooltip is mounted.  Tooltip, TooltipTrigger and TooltipContent register no
\* document listener (the only effect is the position effect), so no handler of
\* the tooltip runs.
TtDocumentEvent ==
    /\ tt_mounted
    /\ tt_ev' \in {"documentMouseDown", "documentKeyDown"}
    /\ tt_setOpenArgs' = <<>>
    /\ UNCHANGED <<TtProps, tt_uncontrolledOpen, tt_timeoutRef, tt_leaked, tt_mounted,
                   tt_calls, tt_lastReq>>

TtInit ==
    /\ tt_isControlled \in BOOLEAN
    /\ tt_controlledOpen \in (IF tt_isControlled THEN BOOLEAN ELSE {FALSE})
    /\ tt_uncontrolledOpen \in BOOLEAN
    /\ tt_onOpenChange \in BOOLEAN
    /\ tt_delayDuration \in {0, 700}
    /\ tt_timeoutRef = "null"
    /\ tt_leaked = 0
    /\ tt_mounted = TRUE
    /\ tt_calls = <<>>
    /\ tt_ev = "init"
    /\ tt_lastReq = "none"
    /\ tt_setOpenArgs = <<>>

TtIdle ==
    /\ tt_isControlled = FALSE
    /\ tt_controlledOpen = FALSE
    /\ tt_uncontrolledOpen = FALSE
    /\ tt_onOpenChange = FALSE
    /\ tt_delayDuration = 0
    /\ tt_timeoutRef = "null"
    /\ tt_leaked = 0
    /\ tt_mounted = TRUE
    /\ tt_calls = <<>>
    /\ tt_ev = "init"
    /\ tt_lastReq = "none"
    /\ tt_setOpenArgs = <<>>

-----------------------------------------------------------------------------

(* DropdownMenu, DropdownMenuTrigger, DropdownMenuContent, DropdownMenuItem *)

DdOpen == IF dd_isControlled THEN dd_controlledOpen ELSE dd_uncontrolledOpen

\* contentRef.current: the content element exists while the content is rendered.
DdContentRef == IF dd_mounted /\ DdOpen THEN "div" ELSE "null"
\* triggerRef.current: set while a DropdownMenuTrigger is rendered.
DdTriggerRef == IF dd_mounted /\ dd_hasTrigger THEN "button" ELSE "null"

Keys == {"Escape", "Enter", " ", "ArrowDown", "a"}
\* Where a pointer-down can land.
Targets ==
    {"outside"} \cup (IF DdContentRef # "null" THEN {"content"} ELSE {})
                \cup (IF DdTriggerRef # "null" THEN {"trigger"} ELSE {})

\* What the handlers of one event read and write.
DdSt == [uncontrolledOpen |-> dd_uncontrolledOpen, calls |-> dd_calls,
         args |-> <<>>, focus |-> dd_focus]

\* setOpen with the fault "writes the internal flag in controlled mode too".
DropdownMenuSetOpenAlwaysWrites(st, value) ==
    [st EXCEPT !.uncontrolledOpen = value,
               !.calls = Notify(@, dd_onOpenChange, value),
               !.args = Append(@, value)]

\* DropdownMenu.setOpen(value)
DropdownMenuSetOpen(st, value) ==
    [st EXCEPT !.uncontrolledOpen = IF ~dd_isControlled THEN value ELSE @,
               !.calls = Notify(@, dd_onOpenChange, value),
               !.args = Append(@, value)]

\* handleClickOutside with the fault "the trigger is not exempt".
HandleClickOutsideIgnoresTrigger(st, target) ==
    IF /\ DdContentRef # "null" /\ target # "content"
       /\ DdTriggerRef # "null"
    THEN DropdownMenuSetOpen(st, FALSE)
    ELSE st

\* DropdownMenuContent.handleClickOutside
HandleClickOutside(st, target) ==
    IF /\ DdContentRef # "null" /\ target # "content"
       /\ DdTriggerRef # "null" /\ target # "trigger"
    THEN DropdownMenuSetOpen(st, FALSE)
    ELSE st

\* handleEscape with the fault "the focus is not returned to the trigger".
HandleEscapeKeepsFocus(st, key) ==
    IF key = "Escape" THEN DropdownMenuSetOpen(st, FALSE) ELSE st

\* DropdownMenuContent.handleEscape
HandleEscape(st, key) ==
    IF key = "Escape"
    THEN [DropdownMenuSetOpen(st, FALSE) EXCEPT
             !.focus = IF DdTriggerRef # "null" THEN "trigger" ELSE @]
    ELSE st

\* DropdownMenuTrigger.handleClick
TriggerHandleClick(st) == DropdownMenuSetOpen(st, ~DdOpen)

\* DropdownMenuTrigger.handleKeyDown
TriggerHandleKeyDown(st, key) ==
    IF key \in {"Enter", " ", "ArrowDown"} THEN DropdownMenuSetOpen(st, TRUE) ELSE st

\* DropdownMenuItem.handleClick; props.onClick may have prevented the default.
ItemHandleClick(st, defaultPrevented) ==
    IF ~defaultPrevented THEN DropdownMenuSetOpen(st, FALSE) ELSE st

\* DropdownMenuItem.handleKeyDown
ItemHandleKeyDown(st, key, defaultPrevented) ==
    IF key \in {"Enter", " "} THEN ItemHandleClick(st, defaultPrevented) ELSE st

\* The cleanup the dismissal effect returned, if it returned one.
EffectCleanup(listeners, cleanup) == IF cleanup THEN listeners - 1 ELSE listeners

\* The dismissal effect with the faults "registers while closed too" (the early
\* return on !open is missing) and "returns no cleanup".
DismissalEffectNoOpenGuard(depsChanged, open, listeners, cleanup) ==
    IF ~depsChanged THEN <<listeners, cleanup>>
    ELSE <<EffectCleanup(listeners, cleanup) + 1, TRUE>>

DismissalEffectNoCleanup(depsChanged, open, listeners, cleanup) ==
    IF ~depsChanged THEN <<listeners, cleanup>>
    ELSE IF ~open THEN <<listeners, FALSE>>
         ELSE <<listeners + 1, FALSE>>

\* The dismissal effect of DropdownMenuContent on a commit: when a dependency
\* changed, the previous cleanup runs and the effect runs with the new `open`.
\* The result is <<registered listener pairs, whether a cleanup is held>>.
DismissalEffect(depsChanged, open, listeners, cleanup) ==
    IF ~depsChanged THEN <<listeners, cleanup>>
    ELSE LET cleaned == EffectCleanup(listeners, cleanup)
         IN IF ~open THEN <<cleaned, FALSE>>
            ELSE <<cleaned + 1, TRUE>>

\* A document listener registered n times runs n times on one event.
RECURSIVE DispatchMouseDown(_, _, _)
DispatchMouseDown(n, st, target) ==
    IF n = 0 THEN st ELSE DispatchMouseDown(n - 1, HandleClickOutside(st, target), target)

RECURSIVE DispatchKeyDown(_, _, _)
DispatchKeyDown(n, st, key) ==
    IF n = 0 THEN st ELSE DispatchKeyDown(n - 1, HandleEscape(st, key), key)

DdProps == <<dd_isControlled, dd_onOpenChange, dd_hasTrigger>>

\* The handlers' writes are committed and the component re-renders: the dismissal
\* effect re-runs when `open` changed (or setOpen did), and an element that is no
\* longer rendered loses the focus to the document body.
DdCommit(st, controlledOpen, setOpenChanged, ev) ==
    LET newOpen == IF dd_isControlled THEN controlledOpen ELSE st.uncontrolledOpen
        eff == DismissalEffect(newOpen # DdOpen \/ setOpenChanged, newOpen,
                               dd_listeners, dd_cleanup)
    IN /\ dd_uncontrolledOpen' = st.uncontrolledOpen
       /\ dd_controlledOpen' = controlledOpen
       /\ dd_calls' = st.calls
       /\ dd_setOpenArgs' = st.args
       /\ dd_focus' = IF st.focus = "content" /\ ~newOpen THEN "body" ELSE st.focus
       /\ dd_listeners' = eff[1]
       /\ dd_cleanup' = eff[2]
       /\ dd_ev' = ev
       /\ UNCHANGED <<DdProps, dd_mounted>>

DdTriggerClick ==
    /\ DdTriggerRef # "null"
    /\ Len(dd_calls) < MaxCalls
    /\ DdCommit(TriggerHandleClick(DdSt), dd_controlledOpen, FALSE, <<"triggerClick", "">>)

\* A key goes down while the trigger has the focus.
DdTriggerKeyDown ==
    /\ DdTriggerRef # "null" /\ dd_focus = "trigger"
    /\ Len(dd_calls) < MaxCalls
    /\ \E key \in Keys :
          DdCommit(TriggerHandleKeyDown(DdSt, key), dd_controlledOpen, FALSE,
                   <<"triggerKeyDown", key>>)

DdItemClick ==
    /\ DdContentRef # "null"
    /\ Len(dd_calls) < MaxCalls
    /\ \E prevented \in BOOLEAN :
          DdCommit(ItemHandleClick(DdSt, prevented), dd_controlledOpen, FALSE,
                   <<"itemClick", IF prevented THEN "prevented" ELSE "">>)

\* A key goes down while a menu item has the focus.
DdItemKeyDown ==
    /\ DdContentRef # "null" /\ dd_focus = "content"
    /\ Len(dd_calls) < MaxCalls
    /\ \E key \in Keys, prevented \in BOOLEAN :
          DdCommit(ItemHandleKeyDown(DdSt, key, prevented), dd_controlledOpen, FALSE,
                   <<"itemKeyDown", key>>)

\* A mousedown reaches the document: every registered handleClickOutside runs.
DdDocumentMouseDown ==
    /\ Len(dd_calls) + dd_listeners <= MaxCalls
    /\ \E target \in Targets :
          DdCommit(DispatchMouseDown(dd_listeners, DdSt, target),
                   dd_controlledOpen, FALSE, <<"mousedown", target>>)

\* A keydown reaches the document: every registered handleEscape runs.
DdDocumentKeyDown ==
    /\ Len(dd_calls) + dd_listeners <= MaxCalls
    /\ \E key \in Keys :
          DdCommit(DispatchKeyDown(dd_listeners, DdSt, key),
                   dd_controlledOpen, FALSE, <<"keydown", key>>)

\* The user moves the keyboard focus.
DdFocusMoves ==
    /\ dd_mounted
    /\ \E el \in {"body"} \cup (IF DdContentRef # "null" THEN {"content"} ELSE {})
                          \cup (IF DdTriggerRef # "null" THEN {"trigger"} ELSE {}) :
          /\ el # dd_focus
          /\ DdCommit([DdSt EXCEPT !.focus = el], dd_controlledOpen, FALSE, <<"focus", el>>)

\* Controlled mode: the owner re-renders the menu with another open prop.
DdParentSetsOpen ==
    /\ dd_mounted /\ dd_isControlled
    /\ DdCommit(DdSt, ~dd_controlledOpen, FALSE, <<"parentSetsOpen", "">>)

\* The owner re-renders with a new onOpenChange function: setOpen is a new function.
DdParentRerender ==
    /\ dd_mounted /\ dd_onOpenChange
    /\ DdCommit(DdSt, dd_controlledOpen, TRUE, <<"parentRerender", "">>)

\* Unmount: the effect's cleanup runs, the rendered elements go.
DdUnmount ==
    /\ dd_mounted
    /\ dd_mounted' = FALSE
    /\ dd_listeners' = EffectCleanup(dd_listeners, dd_cleanup)
    /\ dd_cleanup' = FALSE
    /\ dd_focus' = "body"
    /\ dd_setOpenArgs' = <<>>
    /\ dd_ev' = <<"unmount", "">>
    /\ UNCHANGED <<DdProps, dd_controlledOpen, dd_uncontrolledOpen, dd_calls>>

\* The state after the first commit: the dismissal effect has run once.
DdInit ==
    /\ dd_isControlled \in BOOLEAN
    /\ dd_controlledOpen \in (IF dd_isControlled THEN BOOLEAN ELSE {FALSE})
    /\ dd_uncontrolledOpen \in BOOLEAN
    /\ dd_onOpenChange \in BOOLEAN
    /\ dd_hasTrigger \in BOOLEAN
    /\ dd_mounted = TRUE
    /\ dd_focus = "body"
    /\ dd_listeners = DismissalEffect(TRUE, DdOpen, 0, FALSE)[1]
    /\ dd_cleanup = DismissalEffect(TRUE, DdOpen, 0, FALSE)[2]
    /\ dd_calls = <<>>
    /\ dd_setOpenArgs = <<>>
    /\ dd_ev = <<"init", "">>

DdIdle ==
    /\ dd_isControlled = FALSE
    /\ dd_controlledOpen = FALSE
    /\ dd_uncontrolledOpen = FALSE
    /\ dd_onOpenChange = FALSE
    /\ dd_hasTrigger = TRUE
    /\ dd_mounted = TRUE
    /\ dd_focus = "body"
    /\ dd_listeners = 0
    /\ dd_cleanup = FALSE
    /\ dd_calls = <<>>
    /\ dd_setOpenArgs = <<>>
    /\ dd_ev = <<"init", "">>

-----------------------------------------------------------------------------
(* Command, CommandInput, CommandEmpty, CommandItem                         *)
(* (src/components/ui/progress.tsx)                                         *)
(*                                                                          *)
(* A string is a sequence of one-character strings.  An element of          *)
(* items.current is a record: the CommandItem it was rendered by (item, -1  *)
(* once that item has unmounted: no handler can tell such elements apart),  *)
(* whether that item is still mounted (attached) and the element's hidden   *)
(* attribute as of its last render.                                         *)

\* The characters of the texts and queries of the model.
Chars == {"a", "c", "m", "z", "A", "C", " "}

\* toLowerCase with the fault "keeps the case".
ToLowerCaseKeepsCase(s) == s

\* String.prototype.toLowerCase, per character and per string.
LowerOf(c) == CASE c = "A" -> "a" [] c = "C" -> "c" [] OTHER -> c
ToLowerCase(s) == [i \in 1..Len(s) |-> LowerOf(s[i])]

\* String.prototype.includes: t occurs in s at some offset.
Includes(s, t) == \E k \in 0..(Len(s) - Len(t)) : SubSeq(s, k + 1, k + Len(t)) = t

\* Array.prototype.join.
RECURSIVE Join(_, _)
Join(parts, sep) ==
    IF Len(parts) = 0 THEN <<>>
    ELSE IF Len(parts) = 1 THEN parts[1]
    ELSE parts[1] \o sep \o Join(Tail(parts), sep)

\* The props of the CommandItems an application renders: the text (value or the
\* text of the children), the keywords and the disabled flag.
ItemCatalogue ==
    << [text |-> <<"C", "a">>, keywords |-> <<>>, disabled |-> FALSE],
       [text |-> <<"m">>, keywords |-> << <<"c">> >>, disabled |-> TRUE],
       [text |-> <<"c", "A", "m">>, keywords |-> <<>>, disabled |-> FALSE],
       [text |-> <<"z">>, keywords |-> << <<"a">>, <<"C">> >>, disabled |-> FALSE] >>

ItemIds == 1..MaxItems
ItemProps(id) == ItemCatalogue[((id - 1) % Len(ItemCatalogue)) + 1]

\* The values typed into the CommandInput.
Queries == {<<>>, <<"c", "A">>, <<" ", "c">>, <<"z", "z">>}

\* The filter prop: none, or one of two custom predicates.
CustomFilters == {"rejectAll", "startsWith"}
CustomFilter(name, value, search) ==
    IF name = "rejectAll" THEN FALSE
    ELSE Len(search) <= Len(value) /\ SubSeq(value, 1, Len(search)) = search

DefaultFilter(value, search) ==
    IF ~cmd_shouldFilter THEN TRUE
    ELSE IF Len(search) = 0 THEN TRUE
    ELSE Includes(ToLowerCase(value), ToLowerCase(search))

\* filter || defaultFilter
Filter(value, search) ==
    IF cmd_filter = "none" THEN DefaultFilter(value, search)
    ELSE CustomFilter(cmd_filter, value, search)

AllSearchableText(id) == Join(<<ItemProps(id).text>> \o ItemProps(id).keywords, <<" ">>)

\* isVisible with the fault "the filter is consulted for the empty query too".
IsVisibleNoShortcut(id, search) == Filter(AllSearchableText(id), search)

IsVisible(id, search) ==
    IF Len(search) = 0 THEN TRUE ELSE Filter(AllSearchableText(id), search)

CmdMounted(id) == cmd_indexRef[id] # -1
IsSelected(id) == cmd_selectedIndex = cmd_indexRef[id] /\ IsVisible(id, cmd_search)

\* An index of items.current that was never assigned.
Hole == [item |-> 0, attached |-> FALSE, hidden |-> FALSE]

\* items.current.filter((item) => item && !item.hidden)
VisibleItems(items) == SelectSeq(items, LAMBDA e : e.item # 0 /\ ~e.hidden)
\* items.current.filter(item => item)
PresentItems(items) == SelectSeq(items, LAMBDA e : e.item # 0)

\* items.current[index] = element
SetAt(items, index, element) ==
    [i \in 1..(IF index + 1 > Len(items) THEN index + 1 ELSE Len(items)) |->
        IF i = index + 1 THEN element
        ELSE IF i <= Len(items) THEN items[i]
        ELSE Hole]

\* The render of the mounted items under a query: each sets its hidden attribute.
Rerender(items, search) ==
    [i \in 1..Len(items) |->
        IF items[i].attached
        THEN [items[i] EXCEPT !.hidden = ~IsVisible(items[i].item, search)]
        ELSE items[i]]

\* The updaters and values handleKeyDown gives to setSelectedIndex; n is
\* visibleItems.length.
ArrowDown(prev, n) == IF prev + 1 >= n THEN 0 ELSE prev + 1
ArrowUp(prev, n) == IF prev - 1 < 0 THEN n - 1 ELSE prev - 1
MoveKeys == {"ArrowDown", "ArrowUp", "Home", "End"}
MoveSelection(key, prev, n) ==
    CASE key = "ArrowDown" -> ArrowDown(prev, n)
      [] key = "ArrowUp" -> ArrowUp(prev, n)
      [] key = "Home" -> 0
      [] key = "End" -> n - 1
      [] OTHER -> prev

\* CommandItem.handleSelect: the item whose onSelect runs, 0 when none does.
HandleSelect(id) == IF ItemProps(id).disabled THEN 0 ELSE id

\* element.click(): the click reaches the React handler of a mounted item only.
Click(element) == IF element.attached THEN HandleSelect(element.item) ELSE 0

\* case "Enter": the item whose onSelect runs, 0 when none does.
ActivateSelected(items, selectedIndex) ==
    LET visibleItems == VisibleItems(items)
    IN IF selectedIndex >= 0 /\ selectedIndex < Len(visibleItems)
       THEN Click(visibleItems[selectedIndex + 1])
       ELSE 0

\* CommandEmpty.checkEmpty: the value given to setIsEmpty.
CheckEmpty(items, search) ==
    LET visibleItems == IF Len(search) = 0 THEN PresentItems(items)
                        ELSE VisibleItems(items)
    IN Len(search) > 0 /\ Len(visibleItems) = 0

CmdKeys == MoveKeys \cup {"Enter", "a"}

\* The query change with the fault "the [search] effect does not run".
CmdSetSearchKeepsSelection ==
    \E q \in Queries :
        /\ q # cmd_search
        /\ cmd_search' = q
        /\ cmd_items' = Rerender(cmd_items, q)
        /\ cmd_emptyTimeout' = "pending"
        /\ cmd_onSelect' = 0
        /\ cmd_ev' = <<"setSearch", 0>>
        /\ UNCHANGED <<cmd_filter, cmd_shouldFilter, cmd_selectedIndex,
                       cmd_itemIndexCounter, cmd_indexRef, cmd_isEmpty>>

\* CommandInput onChange: setSearch(q); the re-render sets the hidden attribute of
\* the mounted items, the [search] effect of Command runs setSelectedIndex(0) and
\* the [search, items] effect of CommandEmpty replaces its timer.
CmdSetSearch ==
    \E q \in Queries :
        /\ q # cmd_search
        /\ cmd_search' = q
        /\ cmd_selectedIndex' = 0
        /\ cmd_items' = Rerender(cmd_items, q)
        /\ cmd_emptyTimeout' = "pending"
        /\ cmd_onSelect' = 0
        /\ cmd_ev' = <<"setSearch", 0>>
        /\ UNCHANGED <<cmd_filter, cmd_shouldFilter, cmd_itemIndexCounter, cmd_indexRef,
                       cmd_isEmpty>>

\* Command.handleKeyDown.
CmdKeyDown ==
    \E key \in CmdKeys :
        /\ cmd_selectedIndex' = MoveSelection(key, cmd_selectedIndex, Len(VisibleItems(cmd_items)))
        /\ cmd_onSelect' = IF key = "Enter" THEN ActivateSelected(cmd_items, cmd_selectedIndex)
                           ELSE 0
        /\ cmd_ev' = <<"keydown", key>>
        /\ UNCHANGED <<cmd_filter, cmd_shouldFilter, cmd_search, cmd_items,
                       cmd_itemIndexCounter, cmd_indexRef, cmd_isEmpty,
                       cmd_emptyTimeout>>

\* CommandItem.handleMouseEnter; a hidden element receives no pointer events.
CmdItemMouseEnter ==
    \E id \in ItemIds :
        /\ CmdMounted(id) /\ IsVisible(id, cmd_search)
        /\ cmd_selectedIndex' = IF ~ItemProps(id).disabled THEN cmd_indexRef[id]
                                ELSE cmd_selectedIndex
        /\ cmd_onSelect' = 0
        /\ cmd_ev' = <<"mouseEnter", 0>>
        /\ UNCHANGED <<cmd_filter, cmd_shouldFilter, cmd_search, cmd_items,
                       cmd_itemIndexCounter, cmd_indexRef, cmd_isEmpty,
                       cmd_emptyTimeout>>

\* A pointer click on a CommandItem: onClick={handleSelect}.
CmdItemClick ==
    \E id \in ItemIds :
        /\ CmdMounted(id) /\ IsVisible(id, cmd_search)
        /\ cmd_onSelect' = HandleSelect(id)
        /\ cmd_ev' = <<"click", 0>>
        /\ UNCHANGED <<cmd_filter, cmd_shouldFilter, cmd_search, cmd_selectedIndex,
                       cmd_items, cmd_itemIndexCounter, cmd_indexRef,
                       cmd_isEmpty, cmd_emptyTimeout>>

\* A CommandItem mounts (for the first time or again, as a new instance with a
\* new element): the layout effect takes the index from the module-level
\* counter, then the effect registers the element under that index.
CmdItemMount ==
    \E id \in ItemIds :
        /\ ~CmdMounted(id)
        /\ cmd_indexRef' = [cmd_indexRef EXCEPT ![id] = cmd_itemIndexCounter]
        /\ cmd_itemIndexCounter' = cmd_itemIndexCounter + 1
        /\ cmd_items' = SetAt(cmd_items, cmd_itemIndexCounter,
                              [item |-> id, attached |-> TRUE,
                               hidden |-> ~IsVisible(id, cmd_search)])
        /\ cmd_onSelect' = 0
        /\ cmd_ev' = <<"mount", 0>>
        /\ UNCHANGED <<cmd_filter, cmd_shouldFilter, cmd_search, cmd_selectedIndex,
                       cmd_isEmpty, cmd_emptyTimeout>>

\* A CommandItem unmounts: the cleanup of the layout effect lowers the counter;
\* nothing removes the element from items.current.
CmdItemUnmount ==
    \E id \in ItemIds :
        /\ CmdMounted(id)
        /\ cmd_indexRef' = [cmd_indexRef EXCEPT ![id] = -1]
        /\ cmd_itemIndexCounter' = IF cmd_itemIndexCounter - 1 > 0
                                   THEN cmd_itemIndexCounter - 1 ELSE 0
        /\ cmd_items' = [i \in 1..Len(cmd_items) |->
                            IF cmd_items[i].item = id
                            THEN [cmd_items[i] EXCEPT !.attached = FALSE, !.item = -1]
                            ELSE cmd_items[i]]
        /\ cmd_onSelect' = 0
        /\ cmd_ev' = <<"unmount", 0>>
        /\ UNCHANGED <<cmd_filter, cmd_shouldFilter, cmd_search, cmd_selectedIndex,
                       cmd_isEmpty, cmd_emptyTimeout>>

\* The 10 ms timer of CommandEmpty runs checkEmpty.
CmdCheckEmpty ==
    /\ cmd_emptyTimeout = "pending"
    /\ cmd_emptyTimeout' = "none"
    /\ cmd_isEmpty' = CheckEmpty(cmd_items, cmd_search)
    /\ cmd_onSelect' = 0
    /\ cmd_ev' = <<"checkEmpty", 0>>
    /\ UNCHANGED <<cmd_filter, cmd_shouldFilter, cmd_search, cmd_selectedIndex, cmd_items,
                   cmd_itemIndexCounter, cmd_indexRef>>

\* A Command with a CommandInput and a CommandEmpty has mounted; its items mount
\* in the steps that follow.
CmdInit ==
    /\ cmd_filter \in {"none"} \cup CustomFilters
    /\ cmd_shouldFilter \in (IF cmd_filter = "none" THEN BOOLEAN ELSE {TRUE})
    /\ cmd_search = <<>>
    /\ cmd_selectedIndex = 0
    /\ cmd_items = <<>>
    /\ cmd_itemIndexCounter = 0
    /\ cmd_indexRef = [id \in ItemIds |-> -1]
    /\ cmd_isEmpty = FALSE
    /\ cmd_emptyTimeout = "pending"
    /\ cmd_onSelect = 0
    /\ cmd_ev = <<"init", 0>>

CmdIdle ==
    /\ cmd_filter = "none"
    /\ cmd_shouldFilter = TRUE
    /\ cmd_search = <<>>
    /\ cmd_selectedIndex = 0
    /\ cmd_items = <<>>
    /\ cmd_itemIndexCounter = 0
    /\ cmd_indexRef = [id \in ItemIds |-> -1]
    /\ cmd_isEmpty = FALSE
    /\ cmd_emptyTimeout = "none"
    /\ cmd_onSelect = 0
    /\ cmd_ev = <<"idle", 0>>

-----------------------------------------------------------------------------
(* ScrollBar (src/components/ui/progress.tsx)                               *)
(*                                                                          *)
(* A number is an exact fraction [n, d] in lowest terms with d >= 0; as in  *)
(* JavaScript a division by zero gives NaN (0/0) or an infinity (1/0,       *)
(* -1/0).  Rounding of floating-point arithmetic is not modelled.           *)

Abs(x) == IF x < 0 THEN 0 - x ELSE x
Sign(x) == IF x < 0 THEN -1 ELSE IF x > 0 THEN 1 ELSE 0

RECURSIVE GCD(_, _)
GCD(a, b) == IF b = 0 THEN a ELSE GCD(b, a % b)

\* The number n / d.
Norm(n, d) ==
    IF d = 0 THEN [n |-> Sign(n), d |-> 0]
    ELSE LET g == GCD(Abs(n), Abs(d))
         IN [n |-> Sign(d) * (n \div g), d |-> Abs(d) \div g]
Num(i) == [n |-> i, d |-> 1]
NaN == [n |-> 0, d |-> 0]
IsNaN(a) == a.n = 0 /\ a.d = 0
IsFinite(a) == a.d # 0

\* The JavaScript operators +, -, *, /, < and <= on numbers.
Plus(a, b) ==
    IF a.d = 0 /\ b.d = 0 THEN (IF a.n = b.n THEN a ELSE NaN)
    ELSE Norm(a.n * b.d + b.n * a.d, a.d * b.d)
Neg(a) == [n |-> 0 - a.n, d |-> a.d]
Minus(a, b) == Plus(a, Neg(b))
Times(a, b) == Norm(a.n * b.n, a.d * b.d)
Over(a, b) == Norm(a.n * b.d * (IF b.n < 0 THEN -1 ELSE 1), a.d * Abs(b.n))
Less(a, b) ==
    /\ ~IsNaN(a) /\ ~IsNaN(b)
    /\ IF a.d = 0 /\ b.d = 0 THEN a.n < b.n ELSE a.n * b.d < b.n * a.d
LessEq(a, b) == ~IsNaN(a) /\ ~IsNaN(b) /\ ~Less(b, a)

\* Math.max and Math.min: NaN when an argument is NaN.
MathMax(a, b) == IF IsNaN(a) \/ IsNaN(b) THEN NaN ELSE IF Less(a, b) THEN b ELSE a
MathMin(a, b) == IF IsNaN(a) \/ IsNaN(b) THEN NaN ELSE IF Less(b, a) THEN b ELSE a

\* The least thumb size, in percent of the track.
MinThumbPercent == 10

\* thumbSize with the fault "no minimum".
ThumbSizeNoMinimum(contentSize, viewportSize) ==
    IF contentSize > 0
    THEN Times(Over(Num(viewportSize), Num(contentSize)), Num(100))
    ELSE Num(0)

\* thumbSize, in percent of the track.
ThumbSize(contentSize, viewportSize) ==
    IF contentSize > 0
    THEN MathMax(Times(Over(Num(viewportSize), Num(contentSize)), Num(100)),
                 Num(MinThumbPercent))
    ELSE Num(0)

\* thumbPosition with the fault "a fraction of the whole track".
ThumbPositionOfWholeTrack(scrollPosition, contentSize, viewportSize) ==
    IF contentSize > viewportSize
    THEN Times(Over(scrollPosition, Num(contentSize - viewportSize)), Num(100))
    ELSE Num(0)

\* thumbPosition, in percent of the track.
ThumbPosition(scrollPosition, contentSize, viewportSize) ==
    IF contentSize > viewportSize
    THEN Times(Over(scrollPosition, Num(contentSize - viewportSize)),
               Minus(Num(100), ThumbSize(contentSize, viewportSize)))
    ELSE Num(0)

\* Math.max(0, Math.min(pos, contentSize - viewportSize))
ClampScroll(pos, contentSize, viewportSize) ==
    MathMax(Num(0), MathMin(pos, Num(contentSize - viewportSize)))

\* handleMouseMove with the fault "the ratio ignores the thumb size".
DragScrollPosIgnoresThumb(startPos, startScroll, currentPos, scrollbarSize, contentSize, viewportSize) ==
    Plus(startScroll,
         Times(Num(currentPos - startPos),
               Over(Num(contentSize - viewportSize), Num(scrollbarSize))))

\* handleMouseMove: newScrollPos.
DragScrollPos(startPos, startScroll, currentPos, scrollbarSize, contentSize, viewportSize) ==
    LET delta == Num(currentPos - startPos)
        scrollRatio ==
            Over(Num(contentSize - viewportSize),
                 Times(Num(scrollbarSize),
                       Minus(Num(1), Over(ThumbSize(contentSize, viewportSize), Num(100)))))
    IN Plus(startScroll, Times(delta, scrollRatio))

\* handleTrackClick: targetScroll.
TrackTargetScroll(clickPos, scrollbarSize, contentSize, viewportSize) ==
    LET clickRatio == Over(Num(clickPos), Num(scrollbarSize))
    IN Minus(Times(clickRatio, Num(contentSize)), Over(Num(viewportSize), Num(2)))

\* The element's scroll offset after the assignment viewport.scrollTop = v: a
\* non-finite value counts as 0 and the offset is kept inside the scroll range.
ScrollTo(v, contentSize, viewportSize) ==
    IF ~IsFinite(v) THEN Num(0)
    ELSE IF Less(v, Num(0)) THEN Num(0)
    ELSE IF contentSize - viewportSize < 0 THEN Num(0)
    ELSE IF Less(Num(contentSize - viewportSize), v) THEN Num(contentSize - viewportSize)
    ELSE v

\* The viewport and content sizes, the track sizes, the track origins and the
\* pointer coordinates of the model.
SbSizes == {<<100, 0>>, <<100, 50>>, <<100, 100>>, <<100, 400>>, <<100, 2000>>}
SbTrackSizes == {100, 80}
SbTrackOrigins == {10}
SbPointerPositions == {10, 60, 110}

SbProps == <<sb_viewportSize, sb_contentSize, sb_hasViewport, sb_trackSize, sb_trackOrigin>>

\* handleThumbMouseDown, and the drag effect that follows setIsDragging(true).
SbThumbMouseDown ==
    \E pos \in SbPointerPositions :
        /\ sb_mounted
        /\ sb_isDragging' = TRUE
        /\ sb_startPosRef' = pos
        /\ sb_startScrollRef' = sb_scrollPosition
        /\ sb_listeners' = 1
        /\ sb_written' = <<>>
        /\ sb_ev' = <<"thumbMouseDown", pos>>
        /\ UNCHANGED <<SbProps, sb_scrollPosition, sb_mounted, sb_writes>>

\* A mousemove reaches the document; handleMouseMove runs when it is registered.
\* The write moves the viewport, whose scroll event updates scrollPosition.
SbDocumentMouseMove ==
    \E pos \in SbPointerPositions :
        LET v == ClampScroll(DragScrollPos(sb_startPosRef, sb_startScrollRef, pos, sb_trackSize,
                                           sb_contentSize, sb_viewportSize),
                             sb_contentSize, sb_viewportSize)
        IN /\ sb_ev' = <<"mousemove", pos>>
           /\ IF sb_listeners > 0 /\ sb_hasViewport
              THEN /\ sb_writes < MaxWrites
                   /\ sb_written' = <<v>>
                   /\ sb_writes' = sb_writes + 1
                   /\ sb_scrollPosition' = ScrollTo(v, sb_contentSize, sb_viewportSize)
              ELSE /\ sb_written' = <<>>
                   /\ UNCHANGED <<sb_scrollPosition, sb_writes>>
           /\ UNCHANGED <<SbProps, sb_isDragging, sb_startPosRef, sb_startScrollRef,
                          sb_listeners, sb_mounted>>

\* The mouseup with the fault "the drag effect has no cleanup".
SbDocumentMouseUpKeepsListeners ==
    /\ sb_ev' = <<"mouseup", 0>>
    /\ sb_written' = <<>>
    /\ IF sb_listeners > 0
       THEN sb_isDragging' = FALSE /\ UNCHANGED sb_listeners
       ELSE UNCHANGED <<sb_isDragging, sb_listeners>>
    /\ UNCHANGED <<SbProps, sb_scrollPosition, sb_startPosRef, sb_startScrollRef, sb_mounted,
                   sb_writes>>

\* A mouseup reaches the document; handleMouseUp runs when it is registered and
\* the cleanup of the drag effect removes both listeners.
SbDocumentMouseUp ==
    /\ sb_ev' = <<"mouseup", 0>>
    /\ sb_written' = <<>>
    /\ IF sb_listeners > 0
       THEN sb_isDragging' = FALSE /\ sb_listeners' = 0
       ELSE UNCHANGED <<sb_isDragging, sb_listeners>>
    /\ UNCHANGED <<SbProps, sb_scrollPosition, sb_startPosRef, sb_startScrollRef, sb_mounted,
                   sb_writes>>

\* handleTrackClick: a click inside the scrollbar, on the track or on the thumb.
SbTrackClick ==
    \E pos \in SbPointerPositions, target \in {"scrollbar", "thumb"} :
        LET clickPos == pos - sb_trackOrigin
            v == ClampScroll(TrackTargetScroll(clickPos, sb_trackSize, sb_contentSize,
                                               sb_viewportSize),
                             sb_contentSize, sb_viewportSize)
        IN /\ sb_mounted
           /\ clickPos >= 0 /\ clickPos <= sb_trackSize
           /\ sb_ev' = <<"click", clickPos>>
           /\ IF sb_hasViewport /\ target = "scrollbar"
              THEN /\ sb_writes < MaxWrites
                   /\ sb_written' = <<v>>
                   /\ sb_writes' = sb_writes + 1
                   /\ sb_scrollPosition' = ScrollTo(v, sb_contentSize, sb_viewportSize)
              ELSE /\ sb_written' = <<>>
                   /\ UNCHANGED <<sb_scrollPosition, sb_writes>>
           /\ UNCHANGED <<SbProps, sb_isDragging, sb_startPosRef, sb_startScrollRef,
                          sb_listeners, sb_mounted>>

\* The owner renders the ScrollBar with other sizes; the viewport keeps its
\* offset inside the new scroll range.  The drag effect is run again with the
\* same isDragging, so the listeners stay as they are.
SbResize ==
    \E size \in SbSizes :
        /\ sb_mounted
        /\ size # <<sb_viewportSize, sb_contentSize>>
        /\ sb_viewportSize' = size[1]
        /\ sb_contentSize' = size[2]
        /\ sb_scrollPosition' = ScrollTo(sb_scrollPosition, size[2], size[1])
        /\ sb_written' = <<>>
        /\ sb_ev' = <<"resize", 0>>
        /\ UNCHANGED <<sb_hasViewport, sb_trackSize, sb_trackOrigin, sb_isDragging,
                       sb_startPosRef, sb_startScrollRef, sb_listeners, sb_mounted, sb_writes>>

\* The ScrollBar unmounts: the cleanup of the drag effect runs.
SbUnmount ==
    /\ sb_mounted
    /\ sb_mounted' = FALSE
    /\ sb_listeners' = 0
    /\ sb_written' = <<>>
    /\ sb_ev' = <<"unmount", 0>>
    /\ UNCHANGED <<SbProps, sb_scrollPosition, sb_isDragging, sb_startPosRef,
                   sb_startScrollRef, sb_writes>>

SbInit ==
    /\ \E size \in SbSizes : sb_viewportSize = size[1] /\ sb_contentSize = size[2]
    /\ sb_hasViewport \in BOOLEAN
    /\ sb_trackSize \in SbTrackSizes
    /\ sb_trackOrigin \in SbTrackOrigins
    /\ sb_scrollPosition = Num(0)
    /\ sb_isDragging = FALSE
    /\ sb_startPosRef = 0
    /\ sb_startScrollRef = Num(0)
    /\ sb_listeners = 0
    /\ sb_mounted = TRUE
    /\ sb_written = <<>>
    /\ sb_writes = 0
    /\ sb_ev = <<"init", 0>>

SbIdle ==
    /\ sb_viewportSize = 0
    /\ sb_contentSize = 0
    /\ sb_hasViewport = FALSE
    /\ sb_trackSize = 100
    /\ sb_trackOrigin = 0
    /\ sb_scrollPosition = Num(0)
    /\ sb_isDragging = FALSE
    /\ sb_startPosRef = 0
    /\ sb_startScrollRef = Num(0)
    /\ sb_listeners = 0
    /\ sb_mounted = FALSE
    /\ sb_written = <<>>
    /\ sb_writes = 0
    /\ sb_ev = <<"idle", 0>>

-----------------------------------------------------------------------------
(***************************************************************************)
(* TooltipContent (src/components/ui/tooltip.tsx), DropdownMenuContent      *)
(* (src/components/ui/dropdown-menu.tsx) and HoverCardContent               *)
(* (src/components/ui/hover-card.tsx): the positioning layout effect.       *)
(*                                                                          *)
(* A rectangle is a DOMRect with integer top, left, width and height; of    *)
(* the content rectangle the effect reads the width and the height only.    *)
(* A position is { top, left } with exact fractions as coordinates.         *)
(***************************************************************************)
Sides == {"top", "right", "bottom", "left"}
Aligns == {"start", "center", "end"}

\* DOMRect.right and DOMRect.bottom
Right(rect) == rect.left + rect.width
Bottom(rect) == rect.top + rect.height

\* a + b / 2
PlusHalf(a, b) == Plus(Num(a), Over(Num(b), Num(2)))

\* if (side === "top" || side === "bottom") switch (align) { ... }
AlignTopBottom(pos, trigger, content, side, align) ==
    IF side \in {"top", "bottom"}
    THEN CASE align = "start" -> [pos EXCEPT !.left = Num(trigger.left)]
           [] align = "center" ->
                [pos EXCEPT !.left = PlusHalf(trigger.left, trigger.width - content.width)]
           [] align = "end" -> [pos EXCEPT !.left = Num(Right(trigger) - content.width)]
           [] OTHER -> pos
    ELSE pos

\* if (side === "left" || side === "right") switch (align) { ... }
AlignLeftRight(pos, trigger, content, side, align) ==
    IF side \in {"left", "right"}
    THEN CASE align = "start" -> [pos EXCEPT !.top = Num(trigger.top)]
           [] align = "center" ->
                [pos EXCEPT !.top = PlusHalf(trigger.top, trigger.height - content.height)]
           [] align = "end" -> [pos EXCEPT !.top = Num(Bottom(trigger) - content.height)]
           [] OTHER -> pos
    ELSE pos

\* The effect with the fault "the offset is added on the top side".
TooltipPositionOffsetTowards(trigger, content, side, align, sideOffset) ==
    LET bySide ==
            CASE side = "top" ->
                   [top |-> Num(trigger.top - content.height + sideOffset), left |-> Num(0)]
              [] side = "bottom" ->
                   [top |-> Num(Bottom(trigger) + sideOffset), left |-> Num(0)]
              [] side = "left" ->
                   [top |-> PlusHalf(trigger.top, trigger.height - content.height),
                    left |-> Num(trigger.left - content.width - sideOffset)]
              [] side = "right" ->
                   [top |-> PlusHalf(trigger.top, trigger.height - content.height),
                    left |-> Num(Right(trigger) + sideOffset)]
    IN  AlignLeftRight(AlignTopBottom(bySide, trigger, content, side, align),
                       trigger, content, side, align)

\* TooltipContent: let top = 0, left = 0; switch (side); the two alignment blocks.
TooltipPosition(trigger, content, side, align, sideOffset) ==
    LET bySide ==
            CASE side = "top" ->
                   [top |-> Num(trigger.top - content.height - sideOffset), left |-> Num(0)]
              [] side = "bottom" ->
                   [top |-> Num(Bottom(trigger) + sideOffset), left |-> Num(0)]
              [] side = "left" ->
                   [top |-> PlusHalf(trigger.top, trigger.height - content.height),
                    left |-> Num(trigger.left - content.width - sideOffset)]
              [] side = "right" ->
                   [top |-> PlusHalf(trigger.top, trigger.height - content.height),
                    left |-> Num(Right(trigger) + sideOffset)]
    IN  AlignLeftRight(AlignTopBottom(bySide, trigger, content, side, align),
                       trigger, content, side, align)

\* The effect with the fault "no alignment block for the left and right sides".
DropdownMenuPositionNoAlign(trigger, content, side, align, sideOffset) ==
    LET bySide ==
            CASE side = "top" ->
                   [top |-> Num(trigger.top - content.height - sideOffset), left |-> Num(0)]
              [] side = "bottom" ->
                   [top |-> Num(Bottom(trigger) + sideOffset), left |-> Num(0)]
              [] side = "left" ->
                   [top |-> Num(trigger.top),
                    left |-> Num(trigger.left - content.width - sideOffset)]
              [] side = "right" ->
                   [top |-> Num(trigger.top), left |-> Num(Right(trigger) + sideOffset)]
    IN  AlignTopBottom(bySide, trigger, content, side, align)

\* DropdownMenuContent: as TooltipContent, but the cases "left" and "right" of the
\* switch on side set top = trigger.top.
DropdownMenuPosition(trigger, content, side, align, sideOffset) ==
    LET bySide ==
            CASE side = "top" ->
                   [top |-> Num(trigger.top - content.height - sideOffset), left |-> Num(0)]
              [] side = "bottom" ->
                   [top |-> Num(Bottom(trigger) + sideOffset), left |-> Num(0)]
              [] side = "left" ->
                   [top |-> Num(trigger.top),
                    left |-> Num(trigger.left - content.width - sideOffset)]
              [] side = "right" ->
                   [top |-> Num(trigger.top), left |-> Num(Right(trigger) + sideOffset)]
    IN  AlignLeftRight(AlignTopBottom(bySide, trigger, content, side, align),
                       trigger, content, side, align)

\* HoverCardContent
HoverCardPosition(trigger, content, side, align, sideOffset) ==
    LET bySide ==
            CASE side = "top" ->
                   [top |-> Num(trigger.top - content.height - sideOffset), left |-> Num(0)]
              [] side = "bottom" ->
                   [top |-> Num(Bottom(trigger) + sideOffset), left |-> Num(0)]
              [] side = "left" ->
                   [top |-> PlusHalf(trigger.top, trigger.height - content.height),
                    left |-> Num(trigger.left - content.width - sideOffset)]
              [] side = "right" ->
                   [top |-> PlusHalf(trigger.top, trigger.height - content.height),
                    left |-> Num(Right(trigger) + sideOffset)]
    IN  AlignLeftRight(AlignTopBottom(bySide, trigger, content, side, align),
                       trigger, content, side, align)

\* The position the effect of the component of the given kind computes.
ContentPosition(kind, trigger, content, side, align, sideOffset) ==
    CASE kind = "Tooltip" -> TooltipPosition(trigger, content, side, align, sideOffset)
      [] kind = "DropdownMenu" ->
           DropdownMenuPosition(trigger, content, side, align, sideOffset)
      [] kind = "HoverCard" -> HoverCardPosition(trigger, content, side, align, sideOffset)

CtKinds == {"Tooltip", "DropdownMenu", "HoverCard"}
\* The rectangle of an element that is not laid out.
ZeroRect == [top |-> 0, left |-> 0, width |-> 0, height |-> 0]
\* Rectangles of a trigger that is laid out: the second is the first after the
\* page has scrolled and the trigger has grown by one pixel.
CtTriggerRects == {[top |-> 100, left |-> 200, width |-> 80, height |-> 30],
                   [top |-> 140, left |-> 200, width |-> 81, height |-> 30]}
\* Sizes of a content element that is laid out.
CtContentRects == {[width |-> 50, height |-> 20], [width |-> 120, height |-> 45]}
\* The measurements at the first render: an element may not be laid out yet.
CtFirstTriggerRects == CtTriggerRects \cup {ZeroRect}
CtFirstContentRects == CtContentRects \cup {[width |-> 0, height |-> 0]}
CtSideOffsets == {4, 8}

\* if (!open || !mounted) return null: the content element exists, and
\* contentRef.current is set, when the last render was with open and mounted.
CtContentRef == ct_open /\ ct_mounted

\* The state position after the layout effect has run in a commit with the given
\* open, contentRef and props.
LayoutEffect(open, contentRef, side, align, sideOffset) ==
    IF ~open \/ ~ct_hasTrigger \/ ~contentRef
    THEN ct_position
    ELSE ContentPosition(ct_kind, ct_trigger, ct_content, side, align, sideOffset)

\* Whether that layout effect reaches setPosition.
LayoutEffectPositions(open, contentRef) == open /\ ct_hasTrigger /\ contentRef

CtProps == <<ct_kind, ct_hasTrigger>>

\* useEffect(() => { setMounted(true) }, []) after the first commit, and the
\* re-render it causes: no dependency of the layout effect has changed, so the
\* layout effect does not run again.
CtMountEffect ==
    /\ ~ct_mounted
    /\ ct_mounted' = TRUE
    /\ ct_ev' = "mounted"
    /\ UNCHANGED <<CtProps, ct_open, ct_side, ct_align, ct_sideOffset, ct_trigger, ct_content,
                   ct_position, ct_positioned>>

\* open of the context changes: the re-render, then the layout effect (open is
\* a dependency).
CtOpenChange ==
    /\ ct_mounted
    /\ ct_open' = ~ct_open
    /\ ct_position' = LayoutEffect(ct_open', ct_open' /\ ct_mounted, ct_side, ct_align,
                                   ct_sideOffset)
    /\ ct_positioned' = LayoutEffectPositions(ct_open', ct_open' /\ ct_mounted)
    /\ ct_ev' = IF ct_open' THEN "open" ELSE "close"
    /\ UNCHANGED <<CtProps, ct_mounted, ct_side, ct_align, ct_sideOffset, ct_trigger,
                   ct_content>>

\* The parent renders the content with another side, align or sideOffset: the
\* layout effect runs (each of the three is a dependency).
CtAnchorChange ==
    /\ ct_mounted
    /\ \E side \in Sides, align \in Aligns, sideOffset \in CtSideOffsets :
          /\ \/ side # ct_side /\ align = ct_align /\ sideOffset = ct_sideOffset
             \/ side = ct_side /\ align # ct_align /\ sideOffset = ct_sideOffset
             \/ side = ct_side /\ align = ct_align /\ sideOffset # ct_sideOffset
          /\ ct_side' = side
          /\ ct_align' = align
          /\ ct_sideOffset' = sideOffset
          /\ ct_position' = LayoutEffect(ct_open, CtContentRef, side, align, sideOffset)
    /\ ct_positioned' = (ct_positioned \/ LayoutEffectPositions(ct_open, CtContentRef))
    /\ ct_ev' = "anchor"
    /\ UNCHANGED <<CtProps, ct_open, ct_mounted, ct_trigger, ct_content>>

\* The layout changes the rectangle of the trigger (resize, scroll) or of the
\* content (resize, mutation of its children).  The component registers no
\* observer and no listener for it, and no dependency of the layout effect
\* changes: nothing runs.  An element that was not laid out is laid out now.
CtGeometryChange ==
    /\ ct_mounted
    /\ \E trigger \in CtTriggerRects, content \in CtContentRects :
          /\ <<trigger, content>> # <<ct_trigger, ct_content>>
          /\ ct_trigger' = trigger
          /\ ct_content' = content
    /\ ct_ev' = "geometry"
    /\ UNCHANGED <<CtProps, ct_open, ct_mounted, ct_side, ct_align, ct_sideOffset, ct_position,
                   ct_positioned>>

\* The state after the first commit: the component has rendered null (mounted is
\* false), so the layout effect has found contentRef.current null and returned.
CtInit ==
    /\ ct_kind \in CtKinds
    /\ ct_open \in BOOLEAN
    /\ ct_mounted = FALSE
    /\ ct_hasTrigger \in BOOLEAN
    /\ ct_side \in Sides
    /\ ct_align \in Aligns
    /\ ct_sideOffset \in CtSideOffsets
    /\ ct_trigger \in CtFirstTriggerRects
    /\ ct_content \in CtFirstContentRects
    /\ ct_position = [top |-> Num(0), left |-> Num(0)]
    /\ ct_positioned = FALSE
    /\ ct_ev = "init"

CtIdle ==
    /\ ct_kind = "none"
    /\ ct_open = FALSE
    /\ ct_mounted = FALSE
    /\ ct_hasTrigger = FALSE
    /\ ct_side = "top"
    /\ ct_align = "center"
    /\ ct_sideOffset = 4
    /\ ct_trigger = [top |-> 0, left |-> 0, width |-> 0, height |-> 0]
    /\ ct_content = [width |-> 0, height |-> 0]
    /\ ct_position = [top |-> Num(0), left |-> Num(0)]
    /\ ct_positioned = FALSE
    /\ ct_ev = "idle"

-----------------------------------------------------------------------------
(***************************************************************************)
(* Collapsible, CollapsibleTrigger, CollapsibleContent                      *)
(* (src/components/ui/progress.tsx)                                         *)
(*                                                                          *)
(* A height is a record: a number of pixels, "auto", or undefined.  Timers  *)
(* and animation frames are untimed: a pending callback may run at any      *)
(* later step.  The state of CollapsibleContent is the record               *)
(* [height, isAnimating, timer, frames].                                    *)
(***************************************************************************)
Px(n) == [kind |-> "px", px |-> n]
Auto == [kind |-> "auto", px |-> 0]
Undefined == [kind |-> "undefined", px |-> 0]

ClOpen == IF cl_isControlled THEN cl_controlledOpen ELSE cl_uncontrolledOpen

\* The render with the fault "the div is always returned".
ClRendersAlways(open, isAnimating) == TRUE

\* if (!open && !isAnimating && !forceMount) return null: whether the render
\* returns the div.
ClRenders(open, isAnimating) == open \/ isAnimating \/ cl_forceMount

\* hidden={!open && !isAnimating && !forceMount}
ClHidden(open, isAnimating) == ~open /\ ~isAnimating /\ ~cl_forceMount

\* height: isAnimating ? height : open ? "auto" : 0
ClStyleHeight(open, isAnimating, height) ==
    IF isAnimating THEN height ELSE IF open THEN Auto ELSE Px(0)

ClSt == [height |-> cl_height, isAnimating |-> cl_isAnimating, timer |-> cl_timer,
         frames |-> cl_frames]

\* The layout effect with the fault "the opening branch sets no timer".
ClLayoutEffectNoOpeningTimer(open, st) ==
    LET cleaned == [st EXCEPT !.timer = "none"]
    IN  IF ~ClRenders(open, st.isAnimating)
        THEN cleaned
        ELSE IF open
             THEN [cleaned EXCEPT !.isAnimating = TRUE, !.height = Px(cl_scrollHeight)]
             ELSE [cleaned EXCEPT !.height = Px(cl_scrollHeight), !.isAnimating = TRUE,
                                  !.frames = st.frames + 1, !.timer = "closing"]

\* The render with the new open, then the layout effect (its dependency open has
\* changed, or this is the mount): the cleanup of the previous run clears its
\* timer; the effect returns when contentRef.current is null, and else runs the
\* opening or the closing branch.
ClLayoutEffect(open, st) ==
    LET cleaned == [st EXCEPT !.timer = "none"]
    IN  IF ~ClRenders(open, st.isAnimating)
        THEN cleaned
        ELSE IF open
             THEN [cleaned EXCEPT !.isAnimating = TRUE, !.height = Px(cl_scrollHeight),
                                  !.timer = "opening"]
             ELSE [cleaned EXCEPT !.height = Px(cl_scrollHeight), !.isAnimating = TRUE,
                                  !.frames = st.frames + 1, !.timer = "closing"]

ClScrollHeights == {40, 80}
ClProps == <<cl_isControlled, cl_defaultOpen, cl_disabled, cl_forceMount, cl_scrollHeight>>

\* open changes to value: the re-render and the layout effect.
ClOpenChanges(isControlled, value) ==
    LET st == ClLayoutEffect(value, ClSt)
    IN  /\ cl_toggles < MaxToggles
        /\ cl_controlledOpen' = IF isControlled THEN value ELSE cl_controlledOpen
        /\ cl_uncontrolledOpen' = IF isControlled THEN cl_uncontrolledOpen ELSE value
        /\ cl_height' = st.height
        /\ cl_isAnimating' = st.isAnimating
        /\ cl_timer' = st.timer
        /\ cl_frames' = st.frames
        /\ cl_contentRef' = ClRenders(value, st.isAnimating)
        /\ cl_toggles' = cl_toggles + 1
        /\ UNCHANGED <<ClProps, cl_innerFrames, cl_mounted>>

\* CollapsibleTrigger.handleClick: props.onClick, then setOpen(!open) unless the
\* event is default-prevented; Collapsible.setOpen returns when disabled and sets
\* the state when uncontrolled (a controlled Collapsible only calls onOpenChange).
ClTriggerClick ==
    /\ cl_mounted
    /\ \E defaultPrevented \in BOOLEAN :
          IF defaultPrevented \/ cl_disabled \/ cl_isControlled
          THEN /\ cl_ev' = "clickIgnored"
               /\ UNCHANGED <<ClProps, cl_controlledOpen, cl_uncontrolledOpen, cl_contentRef,
                              cl_height, cl_isAnimating, cl_timer, cl_frames, cl_innerFrames,
                              cl_mounted, cl_toggles>>
          ELSE /\ ClOpenChanges(FALSE, ~ClOpen)
               /\ cl_ev' = IF ClOpen THEN "closeRequest" ELSE "openRequest"

\* The parent renders a controlled Collapsible with another open prop.
ClParentSetsOpen ==
    /\ cl_mounted
    /\ cl_isControlled
    /\ ClOpenChanges(TRUE, ~ClOpen)
    /\ cl_ev' = IF ClOpen THEN "closeRequest" ELSE "openRequest"

\* The closing timer with the fault "isAnimating is not reset".
ClTimeoutKeepsAnimating ==
    /\ cl_timer # "none"
    /\ cl_timer' = "none"
    /\ cl_isAnimating' = (cl_timer = "closing")
    /\ cl_height' = IF cl_timer = "opening" THEN Undefined ELSE cl_height
    /\ cl_contentRef' = ClRenders(ClOpen, cl_isAnimating')
    /\ cl_ev' = "timeout"
    /\ UNCHANGED <<ClProps, cl_controlledOpen, cl_uncontrolledOpen, cl_frames, cl_innerFrames,
                   cl_mounted, cl_toggles>>

\* The 200 ms timer of the last effect run: setIsAnimating(false), and
\* setHeight(undefined) in the opening branch; then the re-render.
ClTimeout ==
    /\ cl_timer # "none"
    /\ cl_timer' = "none"
    /\ cl_isAnimating' = FALSE
    /\ cl_height' = IF cl_timer = "opening" THEN Undefined ELSE cl_height
    /\ cl_contentRef' = ClRenders(ClOpen, FALSE)
    /\ cl_ev' = "timeout"
    /\ UNCHANGED <<ClProps, cl_controlledOpen, cl_uncontrolledOpen, cl_frames, cl_innerFrames,
                   cl_mounted, cl_toggles>>

\* The outer requestAnimationFrame callback of a closing branch: it requests the
\* inner one.  No cleanup cancels it.
ClFrame ==
    /\ cl_frames > 0
    /\ cl_frames' = cl_frames - 1
    /\ cl_innerFrames' = cl_innerFrames + 1
    /\ cl_ev' = "frame"
    /\ UNCHANGED <<ClProps, cl_controlledOpen, cl_uncontrolledOpen, cl_contentRef, cl_height,
                   cl_isAnimating, cl_timer, cl_mounted, cl_toggles>>

\* The inner requestAnimationFrame callback: setHeight(0), which changes nothing
\* once the component has unmounted.
ClInnerFrame ==
    /\ cl_innerFrames > 0
    /\ cl_innerFrames' = cl_innerFrames - 1
    /\ cl_height' = IF cl_mounted THEN Px(0) ELSE cl_height
    /\ cl_ev' = "innerFrame"
    /\ UNCHANGED <<ClProps, cl_controlledOpen, cl_uncontrolledOpen, cl_contentRef, cl_frames,
                   cl_isAnimating, cl_timer, cl_mounted, cl_toggles>>

\* Unmount: the cleanup of the layout effect clears its timer.
ClUnmount ==
    /\ cl_mounted
    /\ cl_mounted' = FALSE
    /\ cl_timer' = "none"
    /\ cl_contentRef' = FALSE
    /\ cl_ev' = "unmount"
    /\ UNCHANGED <<ClProps, cl_controlledOpen, cl_uncontrolledOpen, cl_height, cl_isAnimating,
                   cl_frames, cl_innerFrames, cl_toggles>>

\* The state after the first commit: the first render with height undefined and
\* isAnimating false, and the layout effect of the mount.
ClInit ==
    /\ cl_isControlled \in BOOLEAN
    /\ cl_defaultOpen \in BOOLEAN
    /\ cl_controlledOpen = (cl_isControlled /\ cl_defaultOpen)
    /\ cl_uncontrolledOpen = (~cl_isControlled /\ cl_defaultOpen)
    /\ cl_disabled \in BOOLEAN
    /\ cl_forceMount \in BOOLEAN
    /\ cl_scrollHeight \in ClScrollHeights
    /\ LET st == ClLayoutEffect(cl_defaultOpen,
                                [height |-> Undefined, isAnimating |-> FALSE,
                                 timer |-> "none", frames |-> 0])
       IN  /\ cl_height = st.height
           /\ cl_isAnimating = st.isAnimating
           /\ cl_timer = st.timer
           /\ cl_frames = st.frames
           /\ cl_contentRef = ClRenders(cl_defaultOpen, st.isAnimating)
    /\ cl_innerFrames = 0
    /\ cl_mounted = TRUE
    /\ cl_toggles = 0
    /\ cl_ev = "init"

ClIdle ==
    /\ cl_isControlled = FALSE
    /\ cl_controlledOpen = FALSE
    /\ cl_uncontrolledOpen = FALSE
    /\ cl_defaultOpen = FALSE
    /\ cl_disabled = FALSE
    /\ cl_forceMount = FALSE
    /\ cl_scrollHeight = 0
    /\ cl_contentRef = FALSE
    /\ cl_height = Undefined
    /\ cl_isAnimating = FALSE
    /\ cl_timer = "none"
    /\ cl_frames = 0
    /\ cl_innerFrames = 0
    /\ cl_mounted = FALSE
    /\ cl_toggles = 0
    /\ cl_ev = "idle"

-----------------------------------------------------------------------------
(***************************************************************************)
(* Two Command instances mounted at the same time                           *)
(* (src/components/ui/progress.tsx).  Their queries stay empty, so every    *)
(* registered element is visible; what the instances share is the           *)
(* module-level itemIndexCounter.                                           *)
(***************************************************************************)
ScInstances == {1, 2}
\* The CommandItems an application renders: two in the first Command, one in the
\* second; <<inst, slot>> is the item at place slot of Command inst.
ScSlots == {1, 2}
ScItems == {<<1, 1>>, <<1, 2>>, <<2, 1>>}

\* A CommandItem of one Command mounts: indexRef.current = itemIndexCounter.current++
\* in the layout effect, registerItem(ref.current, indexRef.current) in the effect.
ScItemMount ==
    \E inst \in ScInstances, slot \in ScSlots :
        /\ <<inst, slot>> \in ScItems
        /\ sc_indexRef[inst][slot] = -1
        /\ sc_indexRef' = [sc_indexRef EXCEPT ![inst][slot] = sc_itemIndexCounter]
        /\ sc_itemIndexCounter' = sc_itemIndexCounter + 1
        /\ sc_items' = [sc_items EXCEPT ![inst] = @ \cup {sc_itemIndexCounter}]
        /\ sc_ev' = <<"mount", inst>>
        /\ UNCHANGED sc_selectedIndex

\* A CommandItem unmounts: the cleanup of the layout effect lowers the counter;
\* its element stays in items.current.
ScItemUnmount ==
    \E inst \in ScInstances, slot \in ScSlots :
        /\ <<inst, slot>> \in ScItems
        /\ sc_indexRef[inst][slot] # -1
        /\ sc_indexRef' = [sc_indexRef EXCEPT ![inst][slot] = -1]
        /\ sc_itemIndexCounter' = IF sc_itemIndexCounter - 1 > 0
                                  THEN sc_itemIndexCounter - 1 ELSE 0
        /\ sc_ev' = <<"unmount", inst>>
        /\ UNCHANGED <<sc_items, sc_selectedIndex>>

\* Command.handleKeyDown of one Command with a moveSelection key.
ScKeyDown ==
    \E inst \in ScInstances, key \in MoveKeys :
        /\ sc_selectedIndex' =
              [sc_selectedIndex EXCEPT
                  ![inst] = MoveSelection(key, @, Cardinality(sc_items[inst]))]
        /\ sc_ev' = <<"keydown", inst>>
        /\ UNCHANGED <<sc_itemIndexCounter, sc_indexRef, sc_items>>

\* CommandItem.handleMouseEnter of a mounted item.
ScItemMouseEnter ==
    \E inst \in ScInstances, slot \in ScSlots :
        /\ <<inst, slot>> \in ScItems
        /\ sc_indexRef[inst][slot] # -1
        /\ sc_selectedIndex' = [sc_selectedIndex EXCEPT ![inst] = sc_indexRef[inst][slot]]
        /\ sc_ev' = <<"mouseenter", inst>>
        /\ UNCHANGED <<sc_itemIndexCounter, sc_indexRef, sc_items>>

\* Both Commands have mounted; their items mount in the steps that follow.
ScInit ==
    /\ sc_itemIndexCounter = 0
    /\ sc_indexRef = [inst \in ScInstances |-> [slot \in ScSlots |-> -1]]
    /\ sc_items = [inst \in ScInstances |-> {}]
    /\ sc_selectedIndex = [inst \in ScInstances |-> 0]
    /\ sc_ev = <<"init", 0>>

ScIdle ==
    /\ sc_itemIndexCounter = 0
    /\ sc_indexRef = [inst \in ScInstances |-> [slot \in ScSlots |-> -1]]
    /\ sc_items = [inst \in ScInstances |-> {}]
    /\ sc_selectedIndex = [inst \in ScInstances |-> 0]
    /\ sc_ev = <<"idle", 0>>

-----------------------------------------------------------------------------
(***************************************************************************)
(* The render of a trigger, content or item component inside or outside    *)
(* the surface that owns it.                                                *)
(***************************************************************************)
\* useTooltip, useDropdownMenu, useHoverCard, useCommand, useCollapsible:
\* if (!context) throw new Error(...)
UseContextOrThrow(inside) == IF inside THEN "renders" ELSE "throws"

\* The components whose body starts with one of these hooks.
RnHookComponents ==
    {"TooltipTrigger", "TooltipContent", "DropdownMenuTrigger", "DropdownMenuContent",
     "DropdownMenuItem", "HoverCardTrigger", "HoverCardContent", "CommandInput",
     "CommandEmpty", "CommandGroup", "CommandItem", "CollapsibleTrigger",
     "CollapsibleContent"}
\* The components that read a context with React.useContext and optional chaining
\* (context?.), or that read no context.
RnOptionalComponents ==
    {"DropdownMenuCheckboxItem", "DropdownMenuRadioItem", "DropdownMenuSubTrigger",
     "DropdownMenuSubContent"}
RnComponents == RnHookComponents \cup RnOptionalComponents

\* What the render of the component does: it throws, or it returns (an element or
\* null) without throwing.
RenderOutcome(component, inside) ==
    IF component \in RnHookComponents THEN UseContextOrThrow(inside) ELSE "renders"

\* React renders the component.
RnRender ==
    /\ rn_outcome = "none"
    /\ rn_outcome' = RenderOutcome(rn_component, rn_inside)
    /\ UNCHANGED <<rn_component, rn_inside>>

RnInit ==
    /\ rn_component \in RnComponents
    /\ rn_inside \in BOOLEAN
    /\ rn_outcome = "none"

RnIdle ==
    /\ rn_component = "none"
    /\ rn_inside = FALSE
    /\ rn_outcome = "none"

-----------------------------------------------------------------------------

Init ==
    \/ comp = "HoverCard" /\ HcInit /\ TtIdle /\ DdIdle /\ CmdIdle /\ SbIdle /\ CtIdle /\ ClIdle /\ ScIdle /\ RnIdle
    \/ comp = "Tooltip" /\ HcIdle /\ TtInit /\ DdIdle /\ CmdIdle /\ SbIdle /\ CtIdle /\ ClIdle /\ ScIdle /\ RnIdle
    \/ comp = "DropdownMenu" /\ HcIdle /\ TtIdle /\ DdInit /\ CmdIdle /\ SbIdle /\ CtIdle /\ ClIdle /\ ScIdle /\ RnIdle
    \/ comp = "Command" /\ HcIdle /\ TtIdle /\ DdIdle /\ CmdInit /\ SbIdle /\ CtIdle /\ ClIdle /\ ScIdle /\ RnIdle
    \/ comp = "ScrollBar" /\ HcIdle /\ TtIdle /\ DdIdle /\ CmdIdle /\ SbInit /\ CtIdle /\ ClIdle /\ ScIdle /\ RnIdle
    \/ comp = "Content" /\ HcIdle /\ TtIdle /\ DdIdle /\ CmdIdle /\ SbIdle /\ CtInit /\ ClIdle /\ ScIdle /\ RnIdle
    \/ comp = "Collapsible" /\ HcIdle /\ TtIdle /\ DdIdle /\ CmdIdle /\ SbIdle /\ CtIdle /\ ClInit /\ ScIdle /\ RnIdle
    \/ comp = "Commands" /\ HcIdle /\ TtIdle /\ DdIdle /\ CmdIdle /\ SbIdle /\ CtIdle /\ ClIdle
          /\ ScInit /\ RnIdle
    \/ comp = "Render" /\ HcIdle /\ TtIdle /\ DdIdle /\ CmdIdle /\ SbIdle /\ CtIdle /\ ClIdle
          /\ ScIdle /\ RnInit

\* A step of the followed instance; the other instances do not move.
Hc(A) == comp = "HoverCard" /\ A /\ UNCHANGED <<comp, ttVars, ddVars, cmdVars, sbVars, ctVars, clVars, scVars, rnVars>>
Tt(A) == comp = "Tooltip" /\ A /\ UNCHANGED <<comp, hcVars, ddVars, cmdVars, sbVars, ctVars, clVars, scVars, rnVars>>
Dd(A) == comp = "DropdownMenu" /\ A /\ UNCHANGED <<comp, hcVars, ttVars, cmdVars, sbVars, ctVars, clVars, scVars, rnVars>>
Cmd(A) == comp = "Command" /\ A /\ UNCHANGED <<comp, hcVars, ttVars, ddVars, sbVars, ctVars, clVars, scVars, rnVars>>
Sb(A) == comp = "ScrollBar" /\ A /\ UNCHANGED <<comp, hcVars, ttVars, ddVars, cmdVars, ctVars, clVars, scVars, rnVars>>
Ct(A) == comp = "Content" /\ A /\ UNCHANGED <<comp, hcVars, ttVars, ddVars, cmdVars, sbVars, clVars, scVars, rnVars>>
Sc(A) == comp = "Commands" /\ A /\ UNCHANGED <<comp, hcVars, ttVars, ddVars, cmdVars, sbVars, ctVars, clVars, rnVars>>
Rn(A) == comp = "Render" /\ A /\ UNCHANGED <<comp, hcVars, ttVars, ddVars, cmdVars, sbVars, ctVars, clVars, scVars>>
Cl(A) == comp = "Collapsible" /\ A /\ UNCHANGED <<comp, hcVars, ttVars, ddVars, cmdVars, sbVars, ctVars, scVars, rnVars>>

Next ==
    \/ Hc(HcTriggerMouseEnter)
    \/ Hc(HcTriggerMouseLeave)
    \/ Hc(HcContentMouseEnter)
    \/ Hc(HcContentMouseLeave)
    \/ Hc(HcOpenTimeout)
    \/ Hc(HcCloseTimeout)
    \/ Hc(HcUnmount)
    \/ Hc(HcParentSetsOpen)
    \/ Hc(HcDocumentEvent)
    \/ Tt(TtMouseEnter)
    \/ Tt(TtMouseLeave)
    \/ Tt(TtFocus)
    \/ Tt(TtBlur)
    \/ Tt(TtTimeout)
    \/ Tt(TtLeakedTimeout)
    \/ Tt(TtUnmount)
    \/ Tt(TtParentSetsOpen)
    \/ Tt(TtDocumentEvent)
    \/ Dd(DdTriggerClick)
    \/ Dd(DdTriggerKeyDown)
    \/ Dd(DdItemClick)
    \/ Dd(DdItemKeyDown)
    \/ Dd(DdDocumentMouseDown)
    \/ Dd(DdDocumentKeyDown)
    \/ Dd(DdFocusMoves)
    \/ Dd(DdParentSetsOpen)
    \/ Dd(DdParentRerender)
    \/ Dd(DdUnmount)
    \/ Cmd(CmdSetSearch)
    \/ Cmd(CmdKeyDown)
    \/ Cmd(CmdItemMouseEnter)
    \/ Cmd(CmdItemClick)
    \/ Cmd(CmdItemMount)
    \/ Cmd(CmdItemUnmount)
    \/ Cmd(CmdCheckEmpty)
    \/ Sb(SbThumbMouseDown)
    \/ Sb(SbDocumentMouseMove)
    \/ Sb(SbDocumentMouseUp)
    \/ Sb(SbTrackClick)
    \/ Sb(SbResize)
    \/ Sb(SbUnmount)
    \/ Ct(CtMountEffect)
    \/ Ct(CtOpenChange)
    \/ Ct(CtAnchorChange)
    \/ Ct(CtGeometryChange)
    \/ Cl(ClTriggerClick)
    \/ Cl(ClParentSetsOpen)
    \/ Cl(ClTimeout)
    \/ Cl(ClFrame)
    \/ Cl(ClInnerFrame)
    \/ Cl(ClUnmount)
    \/ Sc(ScItemMount)
    \/ Sc(ScItemUnmount)
    \/ Sc(ScKeyDown)
    \/ Sc(ScItemMouseEnter)
    \/ Rn(RnRender)

Spec == Init /\ [][Next]_vars

\* A timer that setTimeout has scheduled runs unless clearTimeout cancels it.
FairSpec == Spec /\ WF_vars(Cl(ClTimeout))

-----------------------------------------------------------------------------
(* Properties *)

\* The last element of a non-empty sequence.
Last(seq) == seq[Len(seq)]

\* The step made the HoverCard open: the internal flag rose or onOpenChange(true) ran.
HcOpened ==
    \/ ~hc_uncontrolledOpen /\ hc_uncontrolledOpen'
    \/ Len(hc_calls') > Len(hc_calls) /\ Last(hc_calls')

\* C1: in HoverCard a close request (setOpen(false)) that follows an open request
\* before the open timer has run cancels that timer, and the card is never opened
\* (internal flag set, onOpenChange(true) called) while the latest request is a close.
C1_CloseCancelsPendingOpen ==
    [][/\ hc_ev' \in {"triggerMouseLeave", "contentMouseLeave"}
            => hc_openTimeoutRef' # "pending"
       /\ HcOpened => hc_lastReq = "open"]_vars

\* A close request has just cancelled a pending open timer and the card is closed.
C1_Witness ==
    /\ hc_ev = "triggerMouseLeave"
    /\ "open" \in hc_cleared
    /\ hc_closeTimeoutRef = "pending"
    /\ ~HcOpen /\ hc_calls = <<>>

\* C2: in Tooltip with delayDuration > 0, once a close request (pointer-leave or blur)
\* has followed a pointer-enter, no timer opens the tooltip unless a new open request
\* was made: a timer callback never runs while the latest request is a close.
C2_CloseCancelsPendingOpen ==
    [][tt_ev' = "timeout" => tt_lastReq # "close"]_vars

\* C3 as stated: with openDelay = 0 an open request to the HoverCard opens it at once
\* and leaves no pending open timer.
C3_ZeroDelayOpensImmediately ==
    [][(hc_ev' = "triggerMouseEnter" /\ hc_openDelay = 0)
          => /\ hc_openTimeoutRef' # "pending"
             /\ ~hc_isControlled => hc_uncontrolledOpen']_vars

\* C3 amended: an open request cancels a pending close timer.  In HoverCard it always
\* leaves a pending open timer and opens nothing itself, whatever openDelay is (0
\* included); the card opens only when that timer runs.  In Tooltip a pointer-enter
\* with delayDuration > 0 schedules the timer and opens nothing, and with
\* delayDuration = 0 it calls setOpen(true) in the same step.
C3_OpenRequest ==
    [][/\ hc_ev' = "triggerMouseEnter"
            => /\ hc_closeTimeoutRef' # "pending"
               /\ hc_openTimeoutRef' = "pending"
               /\ UNCHANGED <<hc_uncontrolledOpen, hc_calls>>
       /\ HcOpened => hc_ev' = "openTimeout"
       /\ tt_ev' = "mouseEnter"
            => IF tt_delayDuration > 0
               THEN /\ tt_timeoutRef' = "pending"
                    /\ tt_setOpenArgs' = <<>>
                    /\ UNCHANGED <<tt_uncontrolledOpen, tt_calls>>
               ELSE /\ tt_setOpenArgs' = <<TRUE>>
                    /\ ~tt_isControlled => tt_uncontrolledOpen'
                    /\ tt_timeoutRef' = tt_timeoutRef]_vars

\* With openDelay = 0 an open request has cancelled a pending close timer and the
\* card waits on its open timer.
C3_Witness ==
    /\ hc_ev = "triggerMouseEnter"
    /\ hc_openDelay = 0
    /\ "close" \in hc_cleared
    /\ hc_openTimeoutRef = "pending"

\* C4: HoverCard.cancelClose (pointer enters the content) cancels the pending close
\* timer and changes nothing else: open flag, open prop, open timer, recorded
\* onOpenChange calls and the latest request stay as they were.
C4_CancelCloseFrame ==
    [][hc_ev' = "contentMouseEnter"
          => /\ hc_closeTimeoutRef' # "pending"
             /\ UNCHANGED <<hc_uncontrolledOpen, hc_controlledOpen, hc_openTimeoutRef,
                            hc_calls, hc_lastReq, hc_mounted>>
             /\ HcOpen']_vars

\* cancelClose has just cancelled the close timer a close request had scheduled, and
\* the card is still open.
C4_Witness ==
    /\ hc_ev = "contentMouseEnter"
    /\ "close" \in hc_cleared
    /\ hc_closeTimeoutRef = "null"
    /\ hc_lastReq = "close"
    /\ HcOpen

\* C5: after a HoverCard or a TooltipTrigger has unmounted, the open flag never
\* changes and onOpenChange is never called.
C5_NothingAfterUnmount ==
    [][/\ ~hc_mounted => UNCHANGED <<hc_uncontrolledOpen, hc_calls>>
       /\ ~tt_mounted => UNCHANGED <<tt_uncontrolledOpen, tt_calls>>]_vars

\* C6: in controlled mode no component writes its internal open flag; every call of
\* Tooltip.setOpen / DropdownMenu.setOpen, and every HoverCard timer callback, calls
\* onOpenChange(value) when it is supplied and, in uncontrolled mode, writes value to
\* the internal flag; HoverCard schedules its timers the same way in both modes and
\* notifies only from a timer callback.
C6_ControlledAndUncontrolled ==
    [][/\ hc_isControlled => UNCHANGED hc_uncontrolledOpen
       /\ tt_isControlled => UNCHANGED tt_uncontrolledOpen
       /\ dd_isControlled => UNCHANGED dd_uncontrolledOpen
       /\ tt_calls' = IF tt_onOpenChange THEN tt_calls \o tt_setOpenArgs' ELSE tt_calls
       /\ (~tt_isControlled /\ tt_setOpenArgs' # <<>>)
            => tt_uncontrolledOpen' = Last(tt_setOpenArgs')
       /\ dd_calls' = IF dd_onOpenChange THEN dd_calls \o dd_setOpenArgs' ELSE dd_calls
       /\ (~dd_isControlled /\ dd_setOpenArgs' # <<>>)
            => dd_uncontrolledOpen' = Last(dd_setOpenArgs')
       /\ \A v \in BOOLEAN :
            hc_ev' = (IF v THEN "openTimeout" ELSE "closeTimeout")
               => /\ hc_calls' = IF hc_onOpenChange THEN Append(hc_calls, v) ELSE hc_calls
                  /\ ~hc_isControlled => hc_uncontrolledOpen' = v
       /\ hc_calls' # hc_calls => hc_ev' \in {"openTimeout", "closeTimeout"}
       /\ hc_ev' = "triggerMouseEnter" => hc_openTimeoutRef' = "pending"
       /\ hc_ev' \in {"triggerMouseLeave", "contentMouseLeave"}
            => hc_closeTimeoutRef' = "pending"]_vars

\* A controlled DropdownMenu has notified its owner of two requests.
C6_Witness ==
    /\ dd_isControlled
    /\ Len(dd_calls) >= 2
    /\ dd_setOpenArgs # <<>>

\* C7: while a DropdownMenu with a trigger is open, a document mousedown outside both
\* the content and the trigger calls setOpen(false) once; a mousedown inside the
\* content or the trigger calls no setOpen and changes neither flag nor calls.
C7_OutsidePointerDown ==
    [][(dd_ev'[1] = "mousedown" /\ dd_mounted /\ DdOpen /\ dd_hasTrigger)
          => IF dd_ev'[2] = "outside"
             THEN dd_setOpenArgs' = <<FALSE>>
             ELSE /\ dd_setOpenArgs' = <<>>
                  /\ UNCHANGED <<dd_uncontrolledOpen, dd_calls>>]_vars

\* An outside mousedown has just closed an uncontrolled menu.
C7_Witness ==
    /\ dd_ev = <<"mousedown", "outside">>
    /\ dd_setOpenArgs = <<FALSE>>
    /\ ~dd_isControlled /\ ~dd_uncontrolledOpen

C9_ListenersSymmetric ==
    dd_listeners = IF dd_mounted /\ DdOpen THEN 1 ELSE 0

\* A menu that was closed and reopened unmounts while open: no listener is left.
C9_Witness ==
    /\ dd_ev[1] = "unmount"
    /\ DdOpen
    /\ Len(dd_calls) >= 2
    /\ dd_listeners = 0

\* C10: an outside mousedown on an open DropdownMenu requests close exactly once
\* (one setOpen(false), one onOpenChange(false), the internal flag cleared in
\* uncontrolled mode); an outside mousedown on a closed menu changes nothing and
\* calls nothing.
C10_DismissOnce ==
    [][dd_ev' = <<"mousedown", "outside">>
          => IF dd_mounted /\ DdOpen /\ dd_hasTrigger
             THEN /\ dd_setOpenArgs' = <<FALSE>>
                  /\ dd_calls' = IF dd_onOpenChange THEN Append(dd_calls, FALSE)
                                 ELSE dd_calls
                  /\ ~dd_isControlled => ~DdOpen'
             ELSE ~DdOpen
                    => /\ dd_setOpenArgs' = <<>>
                       /\ UNCHANGED <<dd_uncontrolledOpen, dd_controlledOpen, dd_calls,
                                      dd_listeners, dd_cleanup, dd_focus>>]_vars

\* A second outside mousedown found the menu closed after one onOpenChange(false).
C10_Witness ==
    /\ dd_ev = <<"mousedown", "outside">>
    /\ dd_setOpenArgs = <<>>
    /\ dd_mounted /\ ~DdOpen
    /\ dd_onOpenChange /\ dd_calls = <<FALSE>>

\* An outside mousedown or an Escape keydown reached the document in this step.
HcDismissEvent == hc_ev' \in {"documentMouseDown", "documentKeyDown"}
TtDismissEvent == tt_ev' \in {"documentMouseDown", "documentKeyDown"}
DdDismissEvent == dd_ev' \in {<<"mousedown", "outside">>, <<"keydown", "Escape">>}

CmdVisibleIds == {id \in ItemIds : CmdMounted(id) /\ IsVisible(id, cmd_search)}
CmdEnabledVisibleIds == {id \in CmdVisibleIds : ~ItemProps(id).disabled}

\* C12: in every reachable state of the Command, if a visible, non-disabled
\* item exists then selectedIndex is the index of a mounted item that is visible
\* and not disabled; and right after a query change selectedIndex is the index
\* of the first visible item (the visible item with the least index).
C12_SelectionOnVisibleItem ==
    comp = "Command" =>
        /\ CmdEnabledVisibleIds # {}
             => \E id \in CmdEnabledVisibleIds : cmd_indexRef[id] = cmd_selectedIndex
        /\ (cmd_ev[1] = "setSearch" /\ CmdVisibleIds # {})
             => \E id \in CmdVisibleIds :
                   /\ cmd_indexRef[id] = cmd_selectedIndex
                   /\ \A other \in CmdVisibleIds : cmd_indexRef[id] <= cmd_indexRef[other]

\* The least and the greatest index held by a visible mounted item.
CmdFirstVisibleIndex ==
    CHOOSE i \in {cmd_indexRef[id] : id \in CmdVisibleIds} :
        \A id \in CmdVisibleIds : i <= cmd_indexRef[id]
CmdLastVisibleIndex ==
    CHOOSE i \in {cmd_indexRef[id] : id \in CmdVisibleIds} :
        \A id \in CmdVisibleIds : i >= cmd_indexRef[id]

\* C13: with at least one visible item, a moveSelection key (ArrowDown = next,
\* ArrowUp = prev, Home = first, End = last) leaves selectedIndex on the index
\* of a currently visible item: Home on the first and End on the last visible
\* item, ArrowDown from the last visible item on the first, ArrowUp from the
\* first visible item on the last.
C13_MoveSelectionLandsOnVisible ==
    [][(cmd_ev'[1] = "keydown" /\ cmd_ev'[2] \in MoveKeys /\ CmdVisibleIds # {})
          => /\ \E id \in CmdVisibleIds : cmd_indexRef[id] = cmd_selectedIndex'
             /\ cmd_ev'[2] = "Home" => cmd_selectedIndex' = CmdFirstVisibleIndex
             /\ cmd_ev'[2] = "End" => cmd_selectedIndex' = CmdLastVisibleIndex
             /\ (cmd_ev'[2] = "ArrowDown" /\ cmd_selectedIndex = CmdLastVisibleIndex)
                   => cmd_selectedIndex' = CmdFirstVisibleIndex
             /\ (cmd_ev'[2] = "ArrowUp" /\ cmd_selectedIndex = CmdFirstVisibleIndex)
                   => cmd_selectedIndex' = CmdLastVisibleIndex]_vars

\* selectedIndex after k ArrowDown keys, n being visibleItems.length.
RECURSIVE ArrowDownTimes(_, _, _)
ArrowDownTimes(k, prev, n) ==
    IF k = 0 THEN prev ELSE ArrowDownTimes(k - 1, ArrowDown(prev, n), n)

\* C14: with N > 0 visible items and an item selected (selectedIndex is the
\* index of a visible mounted item, set by the keyboard or by a pointer hover),
\* N ArrowDown keys bring selectedIndex back to where it was.
C14_ArrowDownCycle ==
    (comp = "Command" /\ \E id \in CmdVisibleIds : IsSelected(id))
        => ArrowDownTimes(Cardinality(CmdVisibleIds), cmd_selectedIndex,
                          Len(VisibleItems(cmd_items))) = cmd_selectedIndex

\* C15 as stated: an Enter key invokes an onSelect only of the selected item (the
\* item rendered selected: its index is selectedIndex and it is visible), and
\* only if that item is not disabled; when no visible, enabled item is selected
\* Enter invokes nothing.  No step invokes the onSelect of a hidden or disabled
\* item.
C15_EnterActivatesSelectedOnly ==
    [][/\ (cmd_ev' = <<"keydown", "Enter">> /\ cmd_onSelect' # 0)
             => IsSelected(cmd_onSelect') /\ ~ItemProps(cmd_onSelect').disabled
       /\ cmd_onSelect' # 0
             => /\ cmd_onSelect' \in CmdVisibleIds
                /\ ~ItemProps(cmd_onSelect').disabled]_vars

\* case-insensitive occurrence of q in text, character by character.
CaseInsensitiveMatch(text, q) ==
    \E k \in 0..(Len(text) - Len(q)) :
        \A j \in 1..Len(q) : LowerOf(text[k + j]) = LowerOf(q[j])

\* The configured predicate: the custom one, or the default one (case-insensitive
\* substring match, or everything when shouldFilter is false).
CmdPredicate(text, q) ==
    IF cmd_filter # "none" THEN CustomFilter(cmd_filter, text, q)
    ELSE ~cmd_shouldFilter \/ CaseInsensitiveMatch(text, q)

\* C16: under the query q the visible items (the mounted items whose element is
\* not hidden) are exactly those whose searchable text joined with the keywords
\* satisfies the predicate; under the empty query every mounted item is visible.
C16_VisibleIffPredicate ==
    comp = "Command" =>
        \A i \in 1..Len(cmd_items) :
            cmd_items[i].attached =>
                (~cmd_items[i].hidden) =
                    (\/ Len(cmd_search) = 0
                     \/ CmdPredicate(AllSearchableText(cmd_items[i].item), cmd_search))

\* The query was just set to "cA" under the default filter: "Ca" is shown (the
\* case differs) and "m" with the keyword "c" is hidden.
C16_Witness ==
    /\ cmd_ev[1] = "setSearch" /\ cmd_search = <<"c", "A">>
    /\ cmd_filter = "none" /\ cmd_shouldFilter
    /\ \E i, j \in 1..Len(cmd_items) :
          /\ cmd_items[i].attached /\ cmd_items[i].item = 1 /\ ~cmd_items[i].hidden
          /\ cmd_items[j].attached /\ cmd_items[j].item = 2 /\ cmd_items[j].hidden

\* C17 as stated: with a custom filter predicate the visibility of every mounted
\* item is, for every query, the empty one included, the predicate's result.
C17_CustomFilterAlways ==
    (comp = "Command" /\ cmd_filter # "none") =>
        \A i \in 1..Len(cmd_items) :
            cmd_items[i].attached =>
                (~cmd_items[i].hidden) =
                    CustomFilter(cmd_filter, AllSearchableText(cmd_items[i].item), cmd_search)

\* C17 as the code has it: with a custom filter predicate a mounted item is
\* visible under a non-empty query iff the predicate holds, and visible under the
\* empty query whatever the predicate returns.
C17_CustomFilterExceptEmptyQuery ==
    (comp = "Command" /\ cmd_filter # "none") =>
        \A i \in 1..Len(cmd_items) :
            cmd_items[i].attached =>
                IF Len(cmd_search) = 0 THEN ~cmd_items[i].hidden
                ELSE cmd_items[i].hidden =
                        ~CustomFilter(cmd_filter, AllSearchableText(cmd_items[i].item), cmd_search)

\* The query was set back to the empty one under a predicate that rejects
\* everything, and a mounted item is shown.
C17_Witness ==
    /\ cmd_ev[1] = "setSearch" /\ Len(cmd_search) = 0
    /\ cmd_filter = "rejectAll"
    /\ \E i \in 1..Len(cmd_items) : cmd_items[i].attached /\ ~cmd_items[i].hidden

\* C18: every change of the query sets selectedIndex to 0, whatever it was; an
\* item mount, an item unmount, the empty-state check and a click leave
\* selectedIndex as it is.
C18_QueryChangeResetsSelection ==
    [][/\ cmd_search' # cmd_search => cmd_selectedIndex' = 0
       /\ cmd_ev'[1] \in {"mount", "unmount", "checkEmpty", "click"}
             => cmd_selectedIndex' = cmd_selectedIndex]_vars

\* An item has just mounted under a non-empty query (whose change reset the
\* selection) and the selection, moved since, is still where it was put.
C18_Witness ==
    /\ cmd_ev[1] = "mount"
    /\ Len(cmd_search) > 0
    /\ cmd_selectedIndex > 0

\* C19: once the debounced check of CommandEmpty has run, the empty-state flag
\* is true iff the query is non-empty and no mounted item is visible; under the
\* empty query it is false.
C19_EmptyFlag ==
    (comp = "Command" /\ cmd_emptyTimeout = "none")
        => cmd_isEmpty = (Len(cmd_search) > 0 /\ CmdVisibleIds = {})

\* C20: after any mounts and unmounts no two mounted CommandItems hold the same
\* index, and the index of an item does not change while the item stays mounted.
C20_IndicesDistinct ==
    [][/\ \A a, b \in ItemIds :
             (a # b /\ CmdMounted(a)' /\ CmdMounted(b)') => cmd_indexRef'[a] # cmd_indexRef'[b]
       /\ \A a \in ItemIds :
             (CmdMounted(a) /\ CmdMounted(a)') => cmd_indexRef'[a] = cmd_indexRef[a]]_vars

\* The indices held by the visible mounted items.
CmdVisibleIndices == {cmd_indexRef[id] : id \in CmdVisibleIds}

\* The distance between two indices.
Dist(a, b) == IF a >= b THEN a - b ELSE b - a

\* C21: whenever a visible item exists after a step, selectedIndex is the index
\* of a visible item; when an item mount or unmount left the former
\* selectedIndex outside the visible set, the new selectedIndex is a visible
\* index nearest to the former one.
C21_ClampedToVisible ==
    [][(comp = "Command" /\ CmdVisibleIndices' # {})
          => /\ cmd_selectedIndex' \in CmdVisibleIndices'
             /\ cmd_ev'[1] \in {"mount", "unmount"}
                   => \A j \in CmdVisibleIndices' :
                         Dist(cmd_selectedIndex', cmd_selectedIndex) <= Dist(j, cmd_selectedIndex)]_vars

\* C22 as stated: every value a ScrollBar assigns to the scroll offset (thumb-drag
\* move or track click) is a number v with 0 <= v <= contentSize - viewportSize.
C22_WritesInRange ==
    (comp = "ScrollBar" /\ sb_written # <<>>)
        => /\ LessEq(Num(0), sb_written[1])
           /\ LessEq(sb_written[1], Num(sb_contentSize - sb_viewportSize))

\* The thumb size as a fraction of the track: max(viewportSize / contentSize,
\* 10%), and 0 for an empty content.
ThumbSizeRatio(contentSize, viewportSize) ==
    IF contentSize > 0
    THEN MathMax(Over(Num(viewportSize), Num(contentSize)), Over(Num(1), Num(10)))
    ELSE Num(0)

\* clamp(x, lo, hi)
Clamp(x, lo, hi) == MathMax(lo, MathMin(x, hi))

\* C23: a pointer move of a thumb drag writes
\* clamp(startOffset + d * (contentSize - viewportSize) / (trackSize * (1 - thumbSizeRatio)),
\* 0, contentSize - viewportSize), d being the displacement of the pointer from the
\* press point; the press point and startOffset are the pointer position and the
\* scroll offset recorded by the thumb press, and no move changes them.
C23_DragOffset ==
    [][/\ sb_ev'[1] = "thumbMouseDown"
             => sb_startPosRef' = sb_ev'[2] /\ sb_startScrollRef' = sb_scrollPosition
       /\ sb_ev'[1] = "mousemove"
             => /\ UNCHANGED <<sb_startPosRef, sb_startScrollRef>>
                /\ sb_written' # <<>>
                      => sb_written'[1] =
                            Clamp(Plus(sb_startScrollRef,
                                       Times(Num(sb_ev'[2] - sb_startPosRef),
                                             Over(Num(sb_contentSize - sb_viewportSize),
                                                  Times(Num(sb_trackSize),
                                                        Minus(Num(1),
                                                              ThumbSizeRatio(sb_contentSize,
                                                                             sb_viewportSize)))))),
                                  Num(0), Num(sb_contentSize - sb_viewportSize))]_vars

\* A second write of a drag on a long content (the minimum thumb size applies):
\* the pointer has moved on and the offset differs from the one at press.
C23_Witness ==
    /\ sb_ev[1] = "mousemove" /\ sb_isDragging /\ sb_written # <<>>
    /\ sb_writes = 2
    /\ sb_contentSize = 2000
    /\ sb_scrollPosition # sb_startScrollRef
    /\ IsFinite(sb_scrollPosition) /\ Less(Num(0), sb_scrollPosition)
    /\ Less(sb_scrollPosition, Num(sb_contentSize - sb_viewportSize))

\* C24 as stated: a track click at position p writes the offset for which p is
\* the centre of the thumb (thumbPosition + thumbSize / 2 = p, in percent of the
\* track), unless the target offset was clamped to the offset range.
C24_TrackClickCentresThumb ==
    (comp = "ScrollBar" /\ sb_ev[1] = "click" /\ sb_written # <<>>)
        => \/ sb_written[1] # TrackTargetScroll(sb_ev[2], sb_trackSize, sb_contentSize,
                                                sb_viewportSize)
           \/ Plus(ThumbPosition(sb_written[1], sb_contentSize, sb_viewportSize),
                   Over(ThumbSize(sb_contentSize, sb_viewportSize), Num(2)))
                 = Times(Over(Num(sb_ev[2]), Num(sb_trackSize)), Num(100))

\* The thumb size and the thumb position in the unit of the track size.
ThumbSizeOnTrack == Times(ThumbSizeRatio(sb_contentSize, sb_viewportSize), Num(sb_trackSize))
ThumbPositionOnTrack ==
    Times(Over(ThumbPosition(sb_scrollPosition, sb_contentSize, sb_viewportSize), Num(100)),
          Num(sb_trackSize))

\* C25: the thumb position is (scrollOffset / (contentSize - viewportSize)) *
\* (trackSize - thumbSize), and 0 when contentSize <= viewportSize; for
\* viewportSize 100, contentSize 400 and scrollOffset 150 it is half of the
\* available track; for every offset of the scroll range the thumb lies inside
\* the track.
C25_ThumbPosition ==
    comp = "ScrollBar" =>
        /\ ThumbPositionOnTrack =
              IF sb_contentSize <= sb_viewportSize THEN Num(0)
              ELSE Times(Over(sb_scrollPosition, Num(sb_contentSize - sb_viewportSize)),
                         Minus(Num(sb_trackSize), ThumbSizeOnTrack))
        /\ ThumbPosition(Num(150), 400, 100)
              = Times(Over(Num(1), Num(2)), Minus(Num(100), ThumbSize(400, 100)))
        /\ sb_contentSize >= sb_viewportSize
              => /\ LessEq(Num(0), ThumbPositionOnTrack)
                 /\ LessEq(Plus(ThumbPositionOnTrack, ThumbSizeOnTrack), Num(sb_trackSize))

\* A track click has put the offset of a viewport of 100 on a content of 400 at
\* 150: the thumb is at half of the available track.
C25_Witness ==
    /\ sb_ev[1] = "click"
    /\ sb_viewportSize = 100 /\ sb_contentSize = 400
    /\ sb_scrollPosition = Num(150)
    /\ ThumbPosition(sb_scrollPosition, sb_contentSize, sb_viewportSize) = Over(Num(75), Num(2))

\* C26: for every contentSize > 0 the thumb size is max(viewportSize /
\* contentSize, 10%) of the track, so never less than 10% of it.
C26_ThumbSize ==
    (comp = "ScrollBar" /\ sb_contentSize > 0)
        => /\ Over(ThumbSize(sb_contentSize, sb_viewportSize), Num(100))
                = (IF Less(Over(Num(sb_viewportSize), Num(sb_contentSize)), Over(Num(1), Num(10)))
                   THEN Over(Num(1), Num(10))
                   ELSE Over(Num(sb_viewportSize), Num(sb_contentSize)))
           /\ LessEq(Num(10), ThumbSize(sb_contentSize, sb_viewportSize))

\* The ScrollBar was rendered again for a content twenty times the viewport.
C26_Witness ==
    /\ sb_ev[1] = "resize" /\ sb_mounted
    /\ sb_contentSize = 2000 /\ sb_viewportSize = 100
    /\ ThumbSize(sb_contentSize, sb_viewportSize) = Num(10)

\* C27: a mouseup on the document during a drag ends it: isDragging becomes
\* false and the document listeners are removed; a pointer move outside a drag
\* writes no scroll offset; the listeners of a mounted ScrollBar are registered
\* exactly while isDragging is true.
C27_DragReleasedAnywhere ==
    [][/\ (sb_ev'[1] = "mouseup" /\ sb_isDragging /\ sb_mounted)
             => ~sb_isDragging' /\ sb_listeners' = 0
       /\ (sb_ev'[1] = "mousemove" /\ ~sb_isDragging)
             => sb_written' = <<>> /\ UNCHANGED sb_scrollPosition
       /\ sb_listeners' = IF sb_mounted' /\ sb_isDragging' THEN 1 ELSE 0]_vars

\* The pointer moves after a drag that wrote an offset was released: nothing is
\* written.
C27_Witness ==
    /\ sb_ev[1] = "mousemove" /\ sb_written = <<>>
    /\ sb_mounted /\ sb_hasViewport /\ ~sb_isDragging /\ sb_listeners = 0
    /\ sb_writes > 0
    /\ sb_scrollPosition # sb_startScrollRef

\* The reference resolvePosition: the primary-axis coordinate from the side and the
\* offset, the cross-axis coordinate from the alignment.
ResolvePosition(trigger, content, side, align, offset) ==
    LET nearX == Num(trigger.left)
        centreX == Minus(PlusHalf(trigger.left, trigger.width), Over(Num(content.width), Num(2)))
        farX == Num(trigger.left + trigger.width - content.width)
        nearY == Num(trigger.top)
        centreY == Minus(PlusHalf(trigger.top, trigger.height), Over(Num(content.height), Num(2)))
        farY == Num(trigger.top + trigger.height - content.height)
        crossX == CASE align = "start" -> nearX [] align = "center" -> centreX
                    [] align = "end" -> farX
        crossY == CASE align = "start" -> nearY [] align = "center" -> centreY
                    [] align = "end" -> farY
    IN  CASE side = "top" ->
               [top |-> Num(trigger.top - content.height - offset), left |-> crossX]
          [] side = "bottom" ->
               [top |-> Num(trigger.top + trigger.height + offset), left |-> crossX]
          [] side = "left" ->
               [top |-> crossY, left |-> Num(trigger.left - content.width - offset)]
          [] side = "right" ->
               [top |-> crossY, left |-> Num(trigger.left + trigger.width + offset)]

\* C28: for the current rectangles, side, alignment and offset the positions that
\* TooltipContent, DropdownMenuContent and HoverCardContent compute equal the
\* reference resolvePosition, hence each other; and the position a positioning
\* pass has just stored is the reference position for the rectangles measured.
C28_PositionIsResolved ==
    comp = "Content" =>
        LET ref == ResolvePosition(ct_trigger, ct_content, ct_side, ct_align, ct_sideOffset)
        IN  /\ TooltipPosition(ct_trigger, ct_content, ct_side, ct_align, ct_sideOffset) = ref
            /\ DropdownMenuPosition(ct_trigger, ct_content, ct_side, ct_align, ct_sideOffset)
                  = ref
            /\ HoverCardPosition(ct_trigger, ct_content, ct_side, ct_align, ct_sideOffset) = ref
            /\ (ct_ev \in {"open", "anchor"} /\ ct_open /\ ct_hasTrigger) => ct_position = ref

\* A DropdownMenuContent on the left side, centred, has just been positioned, and
\* not at the top edge of its trigger.
C28_Witness ==
    /\ comp = "Content"
    /\ ct_kind = "DropdownMenu"
    /\ ct_ev = "anchor"
    /\ ct_open
    /\ ct_hasTrigger
    /\ ct_side = "left"
    /\ ct_align = "center"
    /\ ct_position.top # Num(ct_trigger.top)
    /\ ct_position = DropdownMenuPosition(ct_trigger, ct_content, ct_side, ct_align,
                                          ct_sideOffset)

\* C29: for every component and for the current side, alignment and rectangles, a
\* larger offset moves the primary-axis coordinate strictly away from the trigger
\* (up for top, down for bottom, to the left for left, to the right for right) and
\* leaves the cross-axis coordinate unchanged.
C29_OffsetMovesPrimaryAxisOnly ==
    comp = "Content" =>
        \A kind \in CtKinds, o1 \in CtSideOffsets, o2 \in CtSideOffsets :
           o1 < o2 =>
              LET p1 == ContentPosition(kind, ct_trigger, ct_content, ct_side, ct_align, o1)
                  p2 == ContentPosition(kind, ct_trigger, ct_content, ct_side, ct_align, o2)
              IN  CASE ct_side = "top" -> Less(p2.top, p1.top) /\ p2.left = p1.left
                    [] ct_side = "bottom" -> Less(p1.top, p2.top) /\ p2.left = p1.left
                    [] ct_side = "left" -> Less(p2.left, p1.left) /\ p2.top = p1.top
                    [] ct_side = "right" -> Less(p1.left, p2.left) /\ p2.top = p1.top

\* An open content has just been positioned with the larger offset, at another
\* position than the smaller offset gives.
C29_Witness ==
    /\ comp = "Content"
    /\ ct_ev = "anchor"
    /\ ct_open
    /\ ct_hasTrigger
    /\ ct_sideOffset = 8
    /\ ct_position = ContentPosition(ct_kind, ct_trigger, ct_content, ct_side, ct_align, 8)
    /\ ct_position # ContentPosition(ct_kind, ct_trigger, ct_content, ct_side, ct_align, 4)

\* C30: while the overlay is open and rendered next to a trigger, the rendered
\* { top, left } is the resolved position for the current trigger and content
\* rectangles.
C30_PositionFollowsGeometry ==
    (comp = "Content" /\ ct_open /\ ct_mounted /\ ct_hasTrigger) =>
        ct_position = ResolvePosition(ct_trigger, ct_content, ct_side, ct_align, ct_sideOffset)

\* No timer and no animation-frame callback of a CollapsibleContent is pending.
ClSettled == cl_timer = "none" /\ cl_frames = 0 /\ cl_innerFrames = 0

\* C32: no callback that a closing transition has scheduled (its timer, its
\* animation frames) is pending once open is true again or the component has
\* unmounted, and the height of a panel that is opening is not 0.
C32_TransitionCallbacksCancelled ==
    comp = "Collapsible" =>
        /\ (cl_mounted /\ ClOpen) =>
              /\ cl_timer # "closing"
              /\ cl_frames = 0
              /\ cl_innerFrames = 0
              /\ ~(cl_isAnimating /\ cl_height = Px(0))
        /\ ~cl_mounted => ClSettled

\* C33: a mounted panel that started closed, is closed and has no callback pending
\* is in its pre-open state: isAnimating is false, and the content is unmounted
\* (with forceMount: rendered with height 0).
C33_RoundTrip ==
    (comp = "Collapsible" /\ cl_mounted /\ ~cl_defaultOpen /\ ~ClOpen /\ ClSettled) =>
        /\ ~cl_isAnimating
        /\ cl_contentRef = cl_forceMount
        /\ cl_forceMount => ClStyleHeight(ClOpen, cl_isAnimating, cl_height) = Px(0)

\* A panel that started closed has been opened, has completed the opening (height
\* is undefined again) and has been closed.
C33_Witness ==
    /\ comp = "Collapsible"
    /\ cl_mounted
    /\ ~cl_defaultOpen
    /\ ~cl_forceMount
    /\ cl_toggles = 2
    /\ ~ClOpen
    /\ ClSettled
    /\ cl_height = Undefined
    /\ ~cl_contentRef

\* C34: an open request starts the opening transition (isAnimating, the measured
\* height, the timer); and an opening panel that is not closed or unmounted
\* eventually is open with isAnimating false, rendered height "auto" and the
\* measured height no longer in the state.
C34_OpenSettles ==
    /\ [][(comp = "Collapsible" /\ cl_ev' = "openRequest") =>
            (ClOpen' /\ cl_isAnimating' /\ cl_timer' = "opening"
             /\ cl_height' = Px(cl_scrollHeight))]_vars
    /\ (comp = "Collapsible" /\ cl_mounted /\ ClOpen /\ cl_isAnimating)
          ~> (\/ ~cl_mounted
              \/ ~ClOpen
              \/ /\ ~cl_isAnimating
                 /\ ClStyleHeight(ClOpen, cl_isAnimating, cl_height) = Auto
                 /\ cl_height # Px(cl_scrollHeight))

\* The timer of an open request has completed the opening.
C34_Witness ==
    /\ comp = "Collapsible"
    /\ cl_mounted
    /\ cl_toggles = 1
    /\ ClOpen
    /\ cl_ev = "timeout"
    /\ ~cl_isAnimating
    /\ cl_height = Undefined
    /\ ClStyleHeight(ClOpen, cl_isAnimating, cl_height) = Auto

\* C35: without forceMount, the content of a closed panel is rendered exactly
\* while isAnimating is true, which is while the timer of a closing transition is
\* pending, and it is then not hidden.
C35_ShownWhileClosedOnlyWhenClosing ==
    (comp = "Collapsible" /\ cl_mounted /\ ~cl_forceMount /\ ~ClOpen) =>
        /\ cl_contentRef = cl_isAnimating
        /\ cl_isAnimating = (cl_timer = "closing")
        /\ cl_contentRef => ~ClHidden(ClOpen, cl_isAnimating)

\* A closed panel in its closing transition: rendered and not hidden.
C35_Witness ==
    /\ comp = "Collapsible"
    /\ cl_mounted
    /\ ~cl_forceMount
    /\ ~ClOpen
    /\ cl_isAnimating
    /\ cl_contentRef
    /\ cl_ev = "closeRequest"

\* The trigger or the content measures as an element that is not laid out.
CtNotReady == ct_trigger = ZeroRect \/ ct_content = [width |-> 0, height |-> 0]

\* C31: a step that ends with an all-zero trigger or content rectangle writes no
\* position; and when the rectangles of an open overlay change from not ready to
\* laid out, that step positions the overlay for the new rectangles.
C31_ZeroRectangleDefersPositioning ==
    [][comp = "Content" =>
          /\ CtNotReady' => ct_position' = ct_position
          /\ (ct_ev' = "geometry" /\ CtNotReady /\ ~CtNotReady'
              /\ ct_open /\ ct_mounted /\ ct_hasTrigger)
                => ct_position' = ResolvePosition(ct_trigger', ct_content', ct_side', ct_align',
                                                  ct_sideOffset')]_vars

\* C40: whenever the content is rendered next to a trigger (open and mounted), a
\* positioning pass has run since the content element exists, and the content is
\* not at the initial { top: 0, left: 0 }.
C40_RenderedContentIsPositioned ==
    (comp = "Content" /\ ct_open /\ ct_mounted /\ ct_hasTrigger) =>
        /\ ct_positioned
        /\ ct_position # [top |-> Num(0), left |-> Num(0)]

\* C38: the item that Enter takes from the visible list at position selectedIndex
\* is the item displayed as selected: a mounted item that is displayed as selected
\* is the one at that position, and a mounted item at that position is displayed as
\* selected.
C38_EnterTakesDisplayedSelection ==
    comp = "Command" =>
        LET visibleItems == VisibleItems(cmd_items)
            inRange == cmd_selectedIndex >= 0 /\ cmd_selectedIndex < Len(visibleItems)
        IN  /\ \A id \in ItemIds :
                  (CmdMounted(id) /\ IsSelected(id))
                     => inRange /\ visibleItems[cmd_selectedIndex + 1].item = id
            /\ (inRange /\ visibleItems[cmd_selectedIndex + 1].attached)
                  => IsSelected(visibleItems[cmd_selectedIndex + 1].item)

\* C39: selectedIndex of a Command is never negative.
C39_SelectedIndexNotNegative ==
    comp = "Command" => cmd_selectedIndex >= 0

\* C36: a step of one of two Command instances (an item mount or unmount, a key,
\* a pointer hover) leaves the item indices, the registered elements and the
\* selectedIndex of the other instance unchanged; and the first item that
\* registers in an instance gets index 0, the initial selectedIndex.
C36_SiblingCommandsIndependent ==
    [][comp = "Commands" =>
          \A inst \in ScInstances :
              /\ sc_ev'[2] # inst
                    => /\ sc_indexRef'[inst] = sc_indexRef[inst]
                       /\ sc_items'[inst] = sc_items[inst]
                       /\ sc_selectedIndex'[inst] = sc_selectedIndex[inst]
              /\ (sc_ev' = <<"mount", inst>> /\ sc_items[inst] = {})
                    => sc_items'[inst] = {0}]_vars

\* C37: a trigger, content or item component rendered outside the surface that
\* owns it throws.
C37_OutsideSurfaceThrows ==
    (comp = "Render" /\ rn_outcome # "none" /\ ~rn_inside) => rn_outcome = "throws"

====
